---- MODULE Spec2Model ----
(***************************************************************************)
(* The builtin functions of the Jsonnet evaluator (src/builtins.go) and    *)
(* the static analyzer that runs before it (src/static_analyzer.go).       *)
(*                                                                         *)
(* A builtin takes lazy arguments (potentialValue) and returns a value or  *)
(* an error.  Every builtin is an operator that returns                    *)
(*     [res |-> the outcome, log |-> the thunks it forced, in order]       *)
(* and one action per builtin applies it to arguments drawn from the       *)
(* pools below.  A number an earlier call returned is kept in acc and is   *)
(* available as an operand of later calls.                                 *)
(*                                                                         *)
(* Numbers are float64 in the program.  The model keeps the shape of       *)
(* IEEE-754 at a reduced size: the finite values are the integers of       *)
(* -MaxFloat..MaxFloat, a result of larger magnitude is +Inf or -Inf, and  *)
(* NaN is a value of its own.  int64 is a two's complement integer of      *)
(* IntBits bits.  Strings are sequences of code points.                    *)
(*                                                                         *)
(* analyze is an operator from a tree to the error it returns and the tree *)
(* with the free variables it stored; one action applies it to a tree.     *)
(***************************************************************************)
EXTENDS Integers, Sequences, FiniteSets, TLC

VARIABLES
    op,     \* the builtin the last call invoked ("none" before any call)
    args,   \* the arguments of the last call, a sequence of thunks
    aux,    \* what the last call drew besides its arguments
    ret,    \* the outcome of the last call: a value or an error
    log,    \* the thunks the last call forced, in order
    acc,    \* the last number a call returned (a finite literal at first)
    thunks  \* the state of the program's lazy values (an empty table when
            \* the arguments of the calls carry their outcomes)

vars == <<op, args, aux, ret, log, acc, thunks>>

(***************************************************************************)
(* Bounds of the model.                                                    *)
(***************************************************************************)
MaxFloat == 2
IntBits == 2

(***************************************************************************)
(* float64, scaled down.                                                   *)
(***************************************************************************)
Fin(n) == [c |-> "fin", n |-> n]
PInf == [c |-> "pinf", n |-> 0]
NInf == [c |-> "ninf", n |-> 0]
NaN == [c |-> "nan", n |-> 0]


IsNaN(f) == f.c = "nan"
IsInf(f) == f.c \in {"pinf", "ninf"}
IsFinite(f) == f.c = "fin"

Abs(i) == IF i < 0 THEN -i ELSE i
Sgn(i) == IF i < 0 THEN -1 ELSE IF i > 0 THEN 1 ELSE 0

\* the float nearest to the exact result i; beyond the finite range it is
\* an infinity
roundFloat(i) ==
    IF i > MaxFloat THEN PInf
    ELSE IF i < -MaxFloat THEN NInf
    ELSE Fin(i)

floatSign(a) == IF a.c = "pinf" THEN 1 ELSE IF a.c = "ninf" THEN -1 ELSE Sgn(a.n)
signedInf(s) == IF s < 0 THEN NInf ELSE PInf

\* the position of a float other than NaN in the numeric order
floatRank(a) ==
    IF a.c = "pinf" THEN MaxFloat + 1
    ELSE IF a.c = "ninf" THEN -(MaxFloat + 1)
    ELSE a.n

floatNeg(a) ==
    IF IsNaN(a) THEN NaN
    ELSE IF IsInf(a) THEN signedInf(-floatSign(a))
    ELSE Fin(-a.n)

floatAdd(a, b) ==
    IF IsNaN(a) \/ IsNaN(b) THEN NaN
    ELSE IF IsInf(a) /\ IsInf(b) THEN (IF a = b THEN a ELSE NaN)
    ELSE IF IsInf(a) THEN a
    ELSE IF IsInf(b) THEN b
    ELSE roundFloat(a.n + b.n)

floatSub(a, b) == floatAdd(a, floatNeg(b))

floatMul(a, b) ==
    IF IsNaN(a) \/ IsNaN(b) THEN NaN
    ELSE IF IsInf(a) \/ IsInf(b)
         THEN (IF floatSign(a) * floatSign(b) = 0 THEN NaN
               ELSE signedInf(floatSign(a) * floatSign(b)))
    ELSE roundFloat(a.n * b.n)

\* p / q for q # 0, rounded to the nearest integer, ties to even
divNearest(p, q) ==
    LET s == Sgn(p) * Sgn(q)
        fl == Abs(p) \div Abs(q)
        r == Abs(p) % Abs(q)
        m == IF 2 * r < Abs(q) THEN fl
             ELSE IF 2 * r > Abs(q) THEN fl + 1
             ELSE IF fl % 2 = 0 THEN fl ELSE fl + 1
    IN s * m

floatDiv(a, b) ==
    IF IsNaN(a) \/ IsNaN(b) THEN NaN
    ELSE IF IsInf(a) /\ IsInf(b) THEN NaN
    ELSE IF IsInf(a) THEN signedInf(floatSign(a) * (IF floatSign(b) < 0 THEN -1 ELSE 1))
    ELSE IF IsInf(b) THEN Fin(0)
    ELSE IF b.n = 0 THEN (IF a.n = 0 THEN NaN ELSE signedInf(a.n))
    ELSE roundFloat(divNearest(a.n, b.n))

\* math.Mod: the remainder has the sign of x
mathMod(x, y) ==
    IF IsNaN(x) \/ IsNaN(y) \/ IsInf(x) THEN NaN
    ELSE IF IsInf(y) THEN x
    ELSE IF y.n = 0 THEN NaN
    ELSE Fin(Sgn(x.n) * (Abs(x.n) % Abs(y.n)))

\* the comparisons of float64: every comparison with NaN is false
floatLess(a, b) == ~IsNaN(a) /\ ~IsNaN(b) /\ floatRank(a) < floatRank(b)
floatEq(a, b) == ~IsNaN(a) /\ ~IsNaN(b) /\ a = b

(***************************************************************************)
(* Strings: sequences of code points.                                      *)
(***************************************************************************)
RECURSIVE seqLess(_, _)
seqLess(a, b) ==
    IF b = <<>> THEN FALSE
    ELSE IF a = <<>> THEN TRUE
    ELSE IF Head(a) # Head(b) THEN Head(a) < Head(b)
    ELSE seqLess(Tail(a), Tail(b))

(***************************************************************************)
(* Values, outcomes and thunks.                                            *)
(***************************************************************************)
makeValueNull == [t |-> "null"]
makeValueBoolean(b) == [t |-> "boolean", value |-> b]
makeValueNumber(f) == [t |-> "number", value |-> f]
makeValueString(s) == [t |-> "string", value |-> s]
makeValueArray(elems) == [t |-> "array", elements |-> elems]
makeValueFunction(params, body) == [t |-> "function", parameters |-> params, body |-> body]
makeValueSimpleObject(upValues, fields, asserts) ==
    [t |-> "object", k |-> "simple", upValues |-> upValues, fields |-> fields,
     asserts |-> asserts]
makeValueExtendedObject(left, right) ==
    [t |-> "object", k |-> "extended", left |-> left, right |-> right]

typename(v) == v.t

Ok(v) == [ok |-> TRUE, v |-> v]
\* an error: its kind, its message, the string the message ends with (a
\* sequence of code points) and the thunk whose expression raised it
Error(msg) == [ok |-> FALSE, kind |-> "runtime", msg |-> msg, arg |-> <<>>, at |-> 0]
ErrorWith(msg, arg) == [ok |-> FALSE, kind |-> "runtime", msg |-> msg, arg |-> arg, at |-> 0]
typeError(expected, v) ==
    [ok |-> FALSE, kind |-> "type",
     msg |-> "Expected " \o expected \o ", got " \o typename(v), arg |-> <<>>, at |-> 0]
typeErrorGeneral(v) ==
    [ok |-> FALSE, kind |-> "type", msg |-> "Unexpected type " \o typename(v),
     arg |-> <<>>, at |-> 0]
\* the error of a user's error expression, raised while forcing thunk id
userError(id) == [ok |-> FALSE, kind |-> "user", msg |-> "boom", arg |-> <<>>, at |-> id]
\* a failed type assertion of the Go runtime
goPanic(msg) == [ok |-> FALSE, kind |-> "panic", msg |-> msg, arg |-> <<>>, at |-> 0]

\* a lazy value: the thunk's identity and what forcing it yields
Thunk(id, out) == [id |-> id, out |-> out]
readyValue(v) == [id |-> 0, out |-> Ok(v)]

Ret(res, lg) == [res |-> res, log |-> lg]

(***************************************************************************)
(* The evaluator's force and coercion helpers.                             *)
(***************************************************************************)
evaluate(p) == p.out

getNumber(v) == IF v.t = "number" THEN Ok(v) ELSE typeError("number", v)
getString(v) == IF v.t = "string" THEN Ok(v) ELSE typeError("string", v)
getBoolean(v) == IF v.t = "boolean" THEN Ok(v) ELSE typeError("boolean", v)
getArray(v) == IF v.t = "array" THEN Ok(v) ELSE typeError("array", v)
getObject(v) == IF v.t = "object" THEN Ok(v) ELSE typeError("object", v)
getFunction(v) == IF v.t = "function" THEN Ok(v) ELSE typeError("function", v)

evaluateNumber(p) == LET r == evaluate(p) IN IF r.ok THEN getNumber(r.v) ELSE r
evaluateString(p) == LET r == evaluate(p) IN IF r.ok THEN getString(r.v) ELSE r
evaluateBoolean(p) == LET r == evaluate(p) IN IF r.ok THEN getBoolean(r.v) ELSE r
evaluateArray(p) == LET r == evaluate(p) IN IF r.ok THEN getArray(r.v) ELSE r
evaluateObject(p) == LET r == evaluate(p) IN IF r.ok THEN getObject(r.v) ELSE r
evaluateFunction(p) == LET r == evaluate(p) IN IF r.ok THEN getFunction(r.v) ELSE r

stringLessThan(x, y) == seqLess(x.value, y.value)
stringEqual(x, y) == x.value = y.value
concatStrings(x, y) == makeValueString(x.value \o y.value)
concatArrays(x, y) == makeValueArray(x.elements \o y.elements)

(***************************************************************************)
(* Objects.  A simple object is a field table name -> (hide, field), the   *)
(* environment it captured (upValues) and its assertions; an extended      *)
(* object is the pair (left, right).  The body of a field is "lit" (a      *)
(* literal) or "var" (a variable of the captured environment) or "boom"    *)
(* (an error expression); no body refers to self or super.                 *)
(***************************************************************************)
ObjectFieldHidden == "hidden"
ObjectFieldInherit == "inherit"
ObjectFieldVisible == "visible"

withHidden == "withHidden"
withoutHidden == "withoutHidden"
withHiddenFromBool(b) == IF b THEN withHidden ELSE withoutHidden

NoEnv == 0

codeField(body) == [k |-> "code", body |-> body]
bindingsUnboundField(inner, bindings) ==
    [k |-> "bindings", inner |-> inner, bindings |-> bindings]
valueSimpleObjectField(hide, field) == [hide |-> hide, field |-> field]

\* the outcome of a field's body, bound in the environment upValues
RECURSIVE bindField(_, _)
bindField(f, upValues) ==
    IF f.k = "bindings" THEN bindField(f.inner, f.bindings)
    ELSE IF f.body = "lit" THEN Ok(makeValueNumber(Fin(1)))
    ELSE IF f.body = "var"
         THEN (IF upValues = NoEnv THEN Error("Unknown variable")
               ELSE Ok(makeValueNumber(Fin(upValues))))
    ELSE userError(0)

\* fields(o, h)
RECURSIVE objectFields(_, _)
objectFields(o, h) ==
    IF o.k = "simple"
    THEN {n \in DOMAIN o.fields : o.fields[n].hide # ObjectFieldHidden \/ h = withHidden}
    ELSE objectFields(o.left, h) \cup objectFields(o.right, h)

\* the topmost (rightmost) definition of name in the inheritance chain of o
RECURSIVE findField(_, _)
findField(o, name) ==
    IF o.k = "simple"
    THEN (IF name \in DOMAIN o.fields
          THEN [found |-> TRUE, hide |-> o.fields[name].hide,
                field |-> o.fields[name].field, upValues |-> o.upValues]
          ELSE [found |-> FALSE])
    ELSE LET r == findField(o.right, name)
         IN IF r.found THEN r ELSE findField(o.left, name)

\* the field name of o as seen with visibility h; found is FALSE for nil
tryObjectIndex(o, name, h) ==
    LET f == findField(o, name)
    IN IF ~f.found THEN f
       ELSE IF h = withoutHidden /\ f.hide = ObjectFieldHidden THEN [found |-> FALSE]
       ELSE f

\* the assertions of o with the environments they are bound in
RECURSIVE objectAsserts(_)
objectAsserts(o) ==
    IF o.k = "simple"
    THEN [i \in 1..Len(o.asserts) |-> [field |-> o.asserts[i], upValues |-> o.upValues]]
    ELSE objectAsserts(o.left) \o objectAsserts(o.right)

(***************************************************************************)
(* sort.Strings, as an insertion sort by code point order.                 *)
(***************************************************************************)
RECURSIVE insertSorted(_, _)
insertSorted(s, x) ==
    IF s = <<>> THEN <<x>>
    ELSE IF seqLess(x, Head(s)) THEN <<x>> \o s
    ELSE <<Head(s)>> \o insertSorted(Tail(s), x)

RECURSIVE sortStrings(_)
sortStrings(s) ==
    IF s = <<>> THEN <<>>
    ELSE insertSorted(sortStrings(Tail(s)), Head(s))

\* the elements of the set S of strings in the order they occur in order
RECURSIVE listInOrder(_, _)
listInOrder(S, order) ==
    IF order = <<>> THEN <<>>
    ELSE (IF Head(order) \in S THEN <<Head(order)>> ELSE <<>>)
         \o listInOrder(S, Tail(order))

\* the strings of the set S in increasing order
RECURSIVE sortedNames(_)
sortedNames(S) ==
    IF S = {} THEN <<>>
    ELSE LET m == CHOOSE x \in S : \A y \in S : ~seqLess(y, x)
         IN <<m>> \o sortedNames(S \ {m})

(***************************************************************************)
(* JSON manifestation on a single line.                                    *)
(***************************************************************************)
RECURSIVE digits(_)
digits(n) == IF n < 10 THEN <<48 + n>> ELSE digits(n \div 10) \o <<48 + (n % 10)>>

unparseNumber(f) ==
    IF f.c = "nan" THEN <<78, 97, 78>>
    ELSE IF f.c = "pinf" THEN <<43, 73, 110, 102>>
    ELSE IF f.c = "ninf" THEN <<45, 73, 110, 102>>
    ELSE IF f.n < 0 THEN <<45>> \o digits(-f.n)
    ELSE digits(f.n)

RECURSIVE escapeString(_)
escapeString(s) ==
    IF s = <<>> THEN <<>>
    ELSE (IF Head(s) \in {34, 92} THEN <<92, Head(s)>> ELSE <<Head(s)>>)
         \o escapeString(Tail(s))

unparseString(s) == <<34>> \o escapeString(s) \o <<34>>

RECURSIVE manifestJSON(_), manifestElems(_, _), manifestFields(_, _, _),
          manifestAsserts(_, _)
\* Ret(Ok(the text) or an error, the element thunks forced)
manifestJSON(v) ==
    CASE v.t = "null" -> Ret(Ok(<<110, 117, 108, 108>>), <<>>)
      [] v.t = "boolean" ->
            Ret(Ok(IF v.value THEN <<116, 114, 117, 101>>
                   ELSE <<102, 97, 108, 115, 101>>), <<>>)
      [] v.t = "number" -> Ret(Ok(unparseNumber(v.value)), <<>>)
      [] v.t = "string" -> Ret(Ok(unparseString(v.value)), <<>>)
      [] v.t = "function" -> Ret(Error("Couldn't manifest function in JSON output."), <<>>)
      [] v.t = "array" ->
            IF v.elements = <<>> THEN Ret(Ok(<<91, 32, 93>>), <<>>)
            ELSE LET m == manifestElems(v.elements, 1)
                 IN IF m.res.ok THEN Ret(Ok(<<91>> \o m.res.v \o <<93>>), m.log) ELSE m
      [] v.t = "object" ->
            LET a == manifestAsserts(objectAsserts(v), 1)
                fieldNames == sortedNames(objectFields(v, withoutHidden))
            IN IF ~a.ok THEN Ret(a, <<>>)
               ELSE IF fieldNames = <<>> THEN Ret(Ok(<<123, 32, 125>>), <<>>)
               ELSE LET m == manifestFields(v, fieldNames, 1)
                    IN IF m.res.ok THEN Ret(Ok(<<123>> \o m.res.v \o <<125>>), m.log) ELSE m

manifestElems(elems, i) ==
    IF i > Len(elems) THEN Ret(Ok(<<>>), <<>>)
    ELSE LET r == evaluate(elems[i])
             here == <<elems[i].id>>
         IN IF ~r.ok THEN Ret(r, here)
            ELSE LET m == manifestJSON(r.v)
                 IN IF ~m.res.ok THEN Ret(m.res, here \o m.log)
                    ELSE LET rest == manifestElems(elems, i + 1)
                             sep == IF i > 1 THEN <<44, 32>> ELSE <<>>
                         IN IF ~rest.res.ok THEN Ret(rest.res, here \o m.log \o rest.log)
                            ELSE Ret(Ok(sep \o m.res.v \o rest.res.v),
                                     here \o m.log \o rest.log)

manifestFields(o, names, i) ==
    IF i > Len(names) THEN Ret(Ok(<<>>), <<>>)
    ELSE LET f == findField(o, names[i])
             r == bindField(f.field, f.upValues)
         IN IF ~r.ok THEN Ret(r, <<>>)
            ELSE LET m == manifestJSON(r.v)
                 IN IF ~m.res.ok THEN m
                    ELSE LET rest == manifestFields(o, names, i + 1)
                             sep == IF i > 1 THEN <<44, 32>> ELSE <<>>
                         IN IF ~rest.res.ok THEN Ret(rest.res, m.log \o rest.log)
                            ELSE Ret(Ok(sep \o unparseString(names[i]) \o <<58, 32>>
                                        \o m.res.v \o rest.res.v),
                                     m.log \o rest.log)

\* the first failing assertion's error, or Ok
manifestAsserts(as, i) ==
    IF i > Len(as) THEN Ok(makeValueNull)
    ELSE LET r == bindField(as[i].field, as[i].upValues)
         IN IF ~r.ok THEN r ELSE manifestAsserts(as, i + 1)

(***************************************************************************)
(* Function values.  The body of a function of the pools is one of         *)
(*   "isPos"  function(x) x > 0      "true"  function(x) true              *)
(*   "id"     function(x) x          "boom"  function(x) error "boom"      *)
(*   "none"   function(x) []         "wrap"  function(x) [x]               *)
(*   "pair"   function(x) [x, error "inner"]                               *)
(* fun.call(args(p)) is a thunk of its own; forcing it runs the body.      *)
(***************************************************************************)
callThunkId(id) == id + 100
\* the thunk of the error expression in the array a call of "pair" returns
innerThunkId(id) == id + 100

call(fun, argp) ==
    LET me == callThunkId(argp.id)
    IN CASE fun.body = "isPos" ->
              LET a == evaluateNumber(argp)
              IN IF ~a.ok THEN Ret(a, <<me, argp.id>>)
                 ELSE Ret(Ok(makeValueBoolean(floatLess(Fin(0), a.v.value))),
                          <<me, argp.id>>)
         [] fun.body = "true" -> Ret(Ok(makeValueBoolean(TRUE)), <<me>>)
         [] fun.body = "id" -> Ret(evaluate(argp), <<me, argp.id>>)
         [] fun.body = "none" -> Ret(Ok(makeValueArray(<<>>)), <<me>>)
         [] fun.body = "wrap" -> Ret(Ok(makeValueArray(<<argp>>)), <<me>>)
         [] fun.body = "pair" ->
              Ret(Ok(makeValueArray(<<argp, Thunk(innerThunkId(me), userError(innerThunkId(me)))>>)),
                  <<me>>)
         [] OTHER -> Ret(userError(me), <<me>>)

(***************************************************************************)
(* The builtins.                                                           *)
(***************************************************************************)
\* builtinToString manifesting strings like every other value
builtinToStringQuoting(xp) ==
    LET x == evaluate(xp)
    IN IF ~x.ok THEN Ret(x, <<xp.id>>)
       ELSE LET m == manifestJSON(x.v)
            IN IF ~m.res.ok THEN Ret(m.res, <<xp.id>> \o m.log)
               ELSE Ret(Ok(makeValueString(m.res.v)), <<xp.id>> \o m.log)

builtinToString(xp) ==
    LET x == evaluate(xp)
    IN IF ~x.ok THEN Ret(x, <<xp.id>>)
       ELSE IF x.v.t = "string" THEN Ret(x, <<xp.id>>)
       ELSE LET m == manifestJSON(x.v)
            IN IF ~m.res.ok THEN Ret(m.res, <<xp.id>> \o m.log)
               ELSE Ret(Ok(makeValueString(m.res.v)), <<xp.id>> \o m.log)

\* plusNumbers with the operator of builtinMinus
plusNumbersSubtracts(left, right) == makeValueNumber(floatSub(left.value, right.value))

\* left.value + right.value
plusNumbers(left, right) == makeValueNumber(floatAdd(left.value, right.value))

builtinPlus(xp, yp) ==
    LET x == evaluate(xp)
        y == evaluate(yp)
        both == <<xp.id, yp.id>>
    IN IF ~x.ok THEN Ret(x, <<xp.id>>)
       ELSE IF ~y.ok THEN Ret(y, both)
       ELSE IF y.v.t = "string"
       THEN LET left == builtinToString(xp)
            IN IF ~left.res.ok THEN Ret(left.res, both \o left.log)
               ELSE Ret(Ok(concatStrings(left.res.v, y.v)), both \o left.log)
       ELSE CASE x.v.t = "number" ->
                   LET right == getNumber(y.v)
                   IN IF ~right.ok THEN Ret(right, both)
                      ELSE Ret(Ok(plusNumbers(x.v, right.v)), both)
              [] x.v.t = "string" ->
                   LET right == builtinToString(yp)
                   IN IF ~right.res.ok THEN Ret(right.res, both \o right.log)
                      ELSE Ret(Ok(concatStrings(x.v, right.res.v)), both \o right.log)
              [] x.v.t = "object" ->
                   LET right == getObject(y.v)
                   IN IF ~right.ok THEN Ret(right, both)
                      ELSE Ret(Ok(makeValueExtendedObject(x.v, right.v)), both)
              [] x.v.t = "array" ->
                   LET right == getArray(y.v)
                   IN IF ~right.ok THEN Ret(right, both)
                      ELSE Ret(Ok(concatArrays(x.v, right.v)), both)
              [] OTHER -> Ret(typeErrorGeneral(x.v), both)

builtinMinus(xp, yp) ==
    LET x == evaluateNumber(xp)
        y == evaluateNumber(yp)
    IN IF ~x.ok THEN Ret(x, <<xp.id>>)
       ELSE IF ~y.ok THEN Ret(y, <<xp.id, yp.id>>)
       ELSE Ret(Ok(makeValueNumber(floatSub(x.v.value, y.v.value))), <<xp.id, yp.id>>)

builtinMult(xp, yp) ==
    LET x == evaluateNumber(xp)
        y == evaluateNumber(yp)
    IN IF ~x.ok THEN Ret(x, <<xp.id>>)
       ELSE IF ~y.ok THEN Ret(y, <<xp.id, yp.id>>)
       ELSE Ret(Ok(makeValueNumber(floatMul(x.v.value, y.v.value))), <<xp.id, yp.id>>)

makeDoubleCheck(x) ==
    IF IsNaN(x) THEN Error("Not a number")
    ELSE IF IsInf(x) THEN Error("Overflow")
    ELSE Ok(makeValueNumber(x))

\* divisorIsZero never finding a zero
divisorIsZeroUnchecked(y) == FALSE

\* y.value == 0
divisorIsZero(y) == floatEq(y.value, Fin(0))

builtinDiv(xp, yp) ==
    LET x == evaluateNumber(xp)
        y == evaluateNumber(yp)
    IN IF ~x.ok THEN Ret(x, <<xp.id>>)
       ELSE IF ~y.ok THEN Ret(y, <<xp.id, yp.id>>)
       ELSE IF divisorIsZero(y.v) THEN Ret(Error("Division by zero."), <<xp.id, yp.id>>)
       ELSE Ret(makeDoubleCheck(floatDiv(x.v.value, y.v.value)), <<xp.id, yp.id>>)

builtinModulo(xp, yp) ==
    LET x == evaluateNumber(xp)
        y == evaluateNumber(yp)
    IN IF ~x.ok THEN Ret(x, <<xp.id>>)
       ELSE IF ~y.ok THEN Ret(y, <<xp.id, yp.id>>)
       ELSE IF divisorIsZero(y.v) THEN Ret(Error("Division by zero."), <<xp.id, yp.id>>)
       ELSE Ret(makeDoubleCheck(mathMod(x.v.value, y.v.value)), <<xp.id, yp.id>>)

builtinLess(xp, yp) ==
    LET x == evaluate(xp)
    IN IF ~x.ok THEN Ret(x, <<xp.id>>)
       ELSE CASE x.v.t = "number" ->
                   LET right == evaluateNumber(yp)
                   IN IF ~right.ok THEN Ret(right, <<xp.id, yp.id>>)
                      ELSE Ret(Ok(makeValueBoolean(floatLess(x.v.value, right.v.value))),
                               <<xp.id, yp.id>>)
              [] x.v.t = "string" ->
                   LET right == evaluateString(yp)
                   IN IF ~right.ok THEN Ret(right, <<xp.id, yp.id>>)
                      ELSE Ret(Ok(makeValueBoolean(stringLessThan(x.v, right.v))),
                               <<xp.id, yp.id>>)
              [] OTHER -> Ret(typeErrorGeneral(x.v), <<xp.id>>)

builtinGreater(xp, yp) == builtinLess(yp, xp)

builtinGreaterEq(xp, yp) ==
    LET res == builtinLess(xp, yp)
    IN IF ~res.res.ok THEN res
       ELSE Ret(Ok(makeValueBoolean(~res.res.v.value)), res.log)

builtinLessEq(xp, yp) ==
    LET res == builtinGreater(xp, yp)
    IN IF ~res.res.ok THEN res
       ELSE Ret(Ok(makeValueBoolean(~res.res.v.value)), res.log)

\* builtinAnd forcing both operands before it looks at the left one
builtinAndEager(xp, yp) ==
    LET x == evaluateBoolean(xp)
        y == evaluateBoolean(yp)
    IN IF ~x.ok THEN Ret(x, <<xp.id>>)
       ELSE IF ~y.ok THEN Ret(y, <<xp.id, yp.id>>)
       ELSE IF ~x.v.value THEN Ret(x, <<xp.id, yp.id>>)
       ELSE Ret(y, <<xp.id, yp.id>>)

builtinAnd(xp, yp) ==
    LET x == evaluateBoolean(xp)
        y == evaluateBoolean(yp)
    IN IF ~x.ok THEN Ret(x, <<xp.id>>)
       ELSE IF ~x.v.value THEN Ret(x, <<xp.id>>)
       ELSE Ret(y, <<xp.id, yp.id>>)

builtinOr(xp, yp) ==
    LET x == evaluateBoolean(xp)
        y == evaluateBoolean(yp)
    IN IF ~x.ok THEN Ret(x, <<xp.id>>)
       ELSE IF x.v.value THEN Ret(x, <<xp.id>>)
       ELSE Ret(y, <<xp.id, yp.id>>)

primitiveEquals(xp, yp) ==
    LET x == evaluate(xp)
        y == evaluate(yp)
        both == <<xp.id, yp.id>>
    IN IF ~x.ok THEN Ret(x, <<xp.id>>)
       ELSE IF ~y.ok THEN Ret(y, both)
       ELSE IF typename(x.v) # typename(y.v) THEN Ret(Ok(makeValueBoolean(FALSE)), both)
       ELSE CASE x.v.t = "boolean" ->
                   Ret(Ok(makeValueBoolean(x.v.value = y.v.value)), both)
              [] x.v.t = "number" ->
                   Ret(Ok(makeValueBoolean(floatEq(x.v.value, y.v.value))), both)
              [] x.v.t = "string" ->
                   Ret(Ok(makeValueBoolean(stringEqual(x.v, y.v))), both)
              [] x.v.t = "null" -> Ret(Ok(makeValueBoolean(TRUE)), both)
              [] x.v.t = "function" ->
                   Ret(Error("Cannot test equality of functions"), both)
              [] OTHER ->
                   Ret(Error("primitiveEquals operates on primitive types, got "
                             \o typename(x.v)), both)

(***************************************************************************)
(* The unary math functions, at the precision of the scaled-down floats:   *)
(* the result is the float nearest to the exact one.                       *)
(***************************************************************************)
sqrtNearest(n) ==
    LET k == CHOOSE j \in 0..n : j * j <= n /\ n < (j + 1) * (j + 1)
    IN IF n - k * k > k THEN k + 1 ELSE k

mathSqrt(x) ==
    IF IsNaN(x) \/ x.c = "ninf" THEN NaN
    ELSE IF x.c = "pinf" THEN PInf
    ELSE IF x.n < 0 THEN NaN
    ELSE Fin(sqrtNearest(x.n))

\* the nearest integer to ln n, for 1 <= n <= 12
logNearest(n) == IF n = 1 THEN 0 ELSE IF n <= 4 THEN 1 ELSE 2

mathLog(x) ==
    IF IsNaN(x) \/ x.c = "ninf" THEN NaN
    ELSE IF x.c = "pinf" THEN PInf
    ELSE IF x.n < 0 THEN NaN
    ELSE IF x.n = 0 THEN NInf
    ELSE Fin(logNearest(x.n))

\* the nearest integer to e^n for n <= 2, and at least 20 beyond
expNearest(n) ==
    IF n < 0 THEN 0 ELSE IF n = 0 THEN 1 ELSE IF n = 1 THEN 3 ELSE IF n = 2 THEN 7
    ELSE 20 * (n - 2)

mathExp(x) ==
    IF IsNaN(x) THEN NaN
    ELSE IF x.c = "pinf" THEN PInf
    ELSE IF x.c = "ninf" THEN Fin(0)
    ELSE roundFloat(expNearest(x.n))

\* every float of the model is an integer, an infinity or NaN
mathFloor(x) == x

mathFunc(f, x) ==
    CASE f = "sqrt" -> mathSqrt(x)
      [] f = "log" -> mathLog(x)
      [] f = "exp" -> mathExp(x)
      [] OTHER -> mathFloor(x)

liftNumeric(f, xp) ==
    LET x == evaluateNumber(xp)
    IN IF ~x.ok THEN Ret(x, <<xp.id>>)
       ELSE Ret(makeDoubleCheck(mathFunc(f, x.v.value)), <<xp.id>>)

(***************************************************************************)
(* int64, scaled down to IntBits bits, and the bitwise operators.          *)
(***************************************************************************)
RECURSIVE pow2(_)
pow2(n) == IF n = 0 THEN 1 ELSE 2 * pow2(n - 1)

IntMin == -pow2(IntBits - 1)
IntMax == pow2(IntBits - 1) - 1

toUnsigned(i) == i % pow2(IntBits)
toSigned(u) == IF u >= pow2(IntBits - 1) THEN u - pow2(IntBits) ELSE u

\* int64(x): the conversion of a float the type cannot represent is
\* implementation-dependent, impl is what the implementation gives
toInt64(x, impl) == IF IsFinite(x) /\ x.n \in IntMin..IntMax THEN x.n ELSE impl

RECURSIVE bitwise(_, _, _, _)
bitwise(f, u, v, n) ==
    IF n = 0 THEN 0
    ELSE LET a == u % 2
             b == v % 2
             bit == CASE f = "bitAnd" -> IF a = 1 /\ b = 1 THEN 1 ELSE 0
                      [] f = "bitOr" -> IF a = 1 \/ b = 1 THEN 1 ELSE 0
                      [] OTHER -> IF a # b THEN 1 ELSE 0
         IN bit + 2 * bitwise(f, u \div 2, v \div 2, n - 1)

intFunc(f, x, y) ==
    CASE f = "shiftL" ->
            IF toUnsigned(y) >= IntBits THEN 0
            ELSE toSigned((toUnsigned(x) * pow2(toUnsigned(y))) % pow2(IntBits))
      [] f = "shiftR" ->
            IF toUnsigned(y) >= IntBits THEN (IF x < 0 THEN -1 ELSE 0)
            ELSE x \div pow2(toUnsigned(y))
      [] OTHER -> toSigned(bitwise(f, toUnsigned(x), toUnsigned(y), IntBits))

liftBitwise(f, xp, yp, implX, implY) ==
    LET x == evaluateNumber(xp)
        y == evaluateNumber(yp)
    IN IF ~x.ok THEN Ret(x, <<xp.id>>)
       ELSE IF ~y.ok THEN Ret(y, <<xp.id, yp.id>>)
       ELSE LET xInt == toInt64(x.v.value, implX)
                yInt == toInt64(y.v.value, implY)
            IN Ret(makeDoubleCheck(roundFloat(intFunc(f, xInt, yInt))), <<xp.id, yp.id>>)

(***************************************************************************)
(* Object introspection.  order is the order in which the Go map of the    *)
(* field names is iterated.                                                *)
(***************************************************************************)
builtinObjectFieldsEx(objp, includeHiddenP, order) ==
    LET obj == evaluateObject(objp)
        includeHidden == evaluateBoolean(includeHiddenP)
    IN IF ~obj.ok THEN Ret(obj, <<objp.id>>)
       ELSE IF ~includeHidden.ok THEN Ret(includeHidden, <<objp.id, includeHiddenP.id>>)
       ELSE LET fields == listInOrder(
                              objectFields(obj.v, withHiddenFromBool(includeHidden.v.value)),
                              order)
                sorted == sortStrings(fields)
                elems == [i \in 1..Len(sorted) |-> readyValue(makeValueString(sorted[i]))]
            IN Ret(Ok(makeValueArray(elems)), <<objp.id, includeHiddenP.id>>)

builtinObjectHasEx(objp, fnamep, includeHiddenP) ==
    LET obj == evaluateObject(objp)
        fname == evaluateString(fnamep)
        includeHidden == evaluateBoolean(includeHiddenP)
    IN IF ~obj.ok THEN Ret(obj, <<objp.id>>)
       ELSE IF ~fname.ok THEN Ret(fname, <<objp.id, fnamep.id>>)
       ELSE IF ~includeHidden.ok
            THEN Ret(includeHidden, <<objp.id, fnamep.id, includeHiddenP.id>>)
       ELSE LET h == withHiddenFromBool(includeHidden.v.value)
                fieldp == tryObjectIndex(obj.v, fname.v.value, h)
            IN Ret(Ok(makeValueBoolean(fieldp.found)),
                   <<objp.id, fnamep.id, includeHiddenP.id>>)

(***************************************************************************)
(* $objectFlatMerge.                                                       *)
(***************************************************************************)
emptyFieldMap == <<>>

\* mergedField binding the copy to no environment
mergedFieldUnbound(fieldVal, simpleObj) ==
    valueSimpleObjectField(fieldVal.hide, bindingsUnboundField(fieldVal.field, NoEnv))

\* the entry of newFields for the field fieldVal of simpleObj
mergedField(fieldVal, simpleObj) ==
    valueSimpleObjectField(fieldVal.hide,
                           bindingsUnboundField(fieldVal.field, simpleObj.upValues))

\* the loop over simpleObj.fields: the table with the fields names[j..]
\* added, or the first of them that is in the table already
RECURSIVE mergeFields(_, _, _, _)
mergeFields(simpleObj, names, j, newFields) ==
    IF j > Len(names) THEN [dup |-> FALSE, fields |-> newFields]
    ELSE LET fieldName == names[j]
             fieldVal == simpleObj.fields[fieldName]
         IN IF fieldName \in DOMAIN newFields THEN [dup |-> TRUE, name |-> fieldName]
            ELSE mergeFields(simpleObj, names, j + 1,
                     [n \in DOMAIN newFields \cup {fieldName} |->
                        IF n = fieldName THEN mergedField(fieldVal, simpleObj)
                        ELSE newFields[n]])

RECURSIVE flatMergeFrom(_, _, _, _, _)
flatMergeFrom(elements, i, newFields, order, lg) ==
    IF i > Len(elements)
    THEN Ret(Ok(makeValueSimpleObject(NoEnv, newFields, <<>>)), lg)
    ELSE LET obj == evaluateObject(elements[i])
             lg2 == lg \o <<elements[i].id>>
         IN IF ~obj.ok THEN Ret(obj, lg2)
            ELSE IF obj.v.k # "simple"
                 THEN Ret(goPanic("interface conversion: not *valueSimpleObject"), lg2)
            ELSE LET m == mergeFields(obj.v, listInOrder(DOMAIN obj.v.fields, order),
                                      1, newFields)
                 IN IF m.dup THEN Ret(ErrorWith("duplicate field name: ", m.name), lg2)
                    ELSE flatMergeFrom(elements, i + 1, m.fields, order, lg2)

builtinUglyObjectFlatMerge(objarrp, order) ==
    LET objarr == evaluateArray(objarrp)
    IN IF ~objarr.ok THEN Ret(objarr, <<objarrp.id>>)
       ELSE IF Len(objarr.v.elements) = 0
            THEN Ret(Ok(makeValueSimpleObject(NoEnv, emptyFieldMap, <<>>)), <<objarrp.id>>)
       ELSE flatMergeFrom(objarr.v.elements, 1, emptyFieldMap, order, <<objarrp.id>>)

(***************************************************************************)
(* filter.                                                                 *)
(***************************************************************************)
\* keepIncluded with the test inverted
keepIncludedInverted(elems, included, elem) ==
    IF ~included.value THEN Append(elems, elem) ELSE elems

\* if included.value { elems = append(elems, arr.elements[i]) }
keepIncluded(elems, included, elem) ==
    IF included.value THEN Append(elems, elem) ELSE elems

RECURSIVE filterFrom(_, _, _, _, _)
filterFrom(fun, elements, i, elems, lg) ==
    IF i > Len(elements) THEN Ret(Ok(makeValueArray(elems)), lg)
    ELSE LET c == call(fun, elements[i])
             included == IF c.res.ok THEN getBoolean(c.res.v) ELSE c.res
             lg2 == lg \o c.log
         IN IF ~included.ok THEN Ret(included, lg2)
            ELSE filterFrom(fun, elements, i + 1,
                            keepIncluded(elems, included.v, elements[i]), lg2)

builtinFilter(funcp, arrp) ==
    LET arr == evaluateArray(arrp)
        fun == evaluateFunction(funcp)
    IN IF ~arr.ok THEN Ret(arr, <<arrp.id>>)
       ELSE IF ~fun.ok THEN Ret(fun, <<arrp.id, funcp.id>>)
       ELSE filterFrom(fun.v, arr.v.elements, 1, <<>>, <<arrp.id, funcp.id>>)

(***************************************************************************)
(* length.                                                                 *)
(***************************************************************************)
\* objectLength counting the hidden fields too
objectLengthWithHidden(x) == Cardinality(objectFields(x, withHidden))

\* num = len(objectFields(x, withoutHidden))
objectLength(x) == Cardinality(objectFields(x, withoutHidden))

builtinLength(xp) ==
    LET x == evaluate(xp)
    IN IF ~x.ok THEN Ret(x, <<xp.id>>)
       ELSE CASE x.v.t = "object" ->
                   Ret(Ok(makeValueNumber(Fin(objectLength(x.v)))), <<xp.id>>)
              [] x.v.t = "array" ->
                   Ret(Ok(makeValueNumber(Fin(Len(x.v.elements)))), <<xp.id>>)
              [] x.v.t = "string" ->
                   Ret(Ok(makeValueNumber(Fin(Len(x.v.value)))), <<xp.id>>)
              [] x.v.t = "function" ->
                   Ret(Ok(makeValueNumber(Fin(Len(x.v.parameters)))), <<xp.id>>)
              [] OTHER -> Ret(typeErrorGeneral(x.v), <<xp.id>>)

(***************************************************************************)
(* char and codepoint.  A string value holds code points ([]rune); a Go    *)
(* string holds their UTF-8 encoding, and string(rune(x)) encodes a        *)
(* surrogate or a value out of range as U+FFFD.                            *)
(***************************************************************************)
codepointMax == 1114111
surrogateMin == 55296
surrogateMax == 57343
runeError == 65533

\* string(r): the UTF-8 bytes of the rune r
RECURSIVE encodeRune(_)
encodeRune(r) ==
    IF r < 0 \/ r > codepointMax \/ r \in surrogateMin..surrogateMax THEN encodeRune(runeError)
    ELSE IF r < 128 THEN <<r>>
    ELSE IF r < 2048 THEN <<192 + (r \div 64), 128 + (r % 64)>>
    ELSE IF r < 65536
         THEN <<224 + (r \div 4096), 128 + ((r \div 64) % 64), 128 + (r % 64)>>
    ELSE <<240 + (r \div 262144), 128 + ((r \div 4096) % 64), 128 + ((r \div 64) % 64),
           128 + (r % 64)>>

\* []rune(s): the code points of well-formed UTF-8 bytes
RECURSIVE decodeRunes(_)
decodeRunes(b) ==
    IF b = <<>> THEN <<>>
    ELSE IF b[1] < 128 THEN <<b[1]>> \o decodeRunes(SubSeq(b, 2, Len(b)))
    ELSE IF b[1] < 224
         THEN <<(b[1] - 192) * 64 + (b[2] - 128)>> \o decodeRunes(SubSeq(b, 3, Len(b)))
    ELSE IF b[1] < 240
         THEN <<(b[1] - 224) * 4096 + (b[2] - 128) * 64 + (b[3] - 128)>>
              \o decodeRunes(SubSeq(b, 4, Len(b)))
    ELSE <<(b[1] - 240) * 262144 + (b[2] - 128) * 4096 + (b[3] - 128) * 64 + (b[4] - 128)>>
         \o decodeRunes(SubSeq(b, 5, Len(b)))

\* makeValueString of a Go string given by its bytes
makeValueStringOfBytes(b) == makeValueString(decodeRunes(b))

\* rune(x): exact on the finite values in range; the conversion of NaN is
\* implementation-dependent, impl is what the implementation gives
toRune(x, impl) == IF IsFinite(x) THEN x.n ELSE impl

\* the two tests of builtinChar on x.value
charRange(x) ==
    IF floatLess(Fin(codepointMax), x) THEN "above"
    ELSE IF floatLess(x, Fin(0)) THEN "below"
    ELSE "ok"

builtinChar(xp, impl) ==
    LET x == evaluateNumber(xp)
    IN IF ~x.ok THEN Ret(x, <<xp.id>>)
       ELSE CASE charRange(x.v.value) = "above" ->
                   Ret(ErrorWith("Invalid unicode codepoint, got ", unparseNumber(x.v.value)),
                       <<xp.id>>)
              [] charRange(x.v.value) = "below" ->
                   Ret(ErrorWith("Codepoints must be >= 0, got ", unparseNumber(x.v.value)),
                       <<xp.id>>)
              [] OTHER ->
                   Ret(Ok(makeValueStringOfBytes(encodeRune(toRune(x.v.value, impl)))),
                       <<xp.id>>)

builtinCodepoint(xp) ==
    LET x == evaluateString(xp)
    IN IF ~x.ok THEN Ret(x, <<xp.id>>)
       ELSE IF Len(x.v.value) # 1
            THEN Ret(ErrorWith("codepoint takes a string of length 1, got length ",
                               digits(Len(x.v.value))), <<xp.id>>)
       ELSE Ret(Ok(makeValueNumber(Fin(x.v.value[1]))), <<xp.id>>)

(***************************************************************************)
(* makeArray.  The sizes it is called with here are finite and far inside  *)
(* the range of int, where int(sz.value) is exact.                         *)
(***************************************************************************)
intToValue(i) == makeValueNumber(Fin(i))

\* &readyValue{intToValue(i)}: the argument of the call for index i
indexArg(i) == Thunk(30 + i, Ok(intToValue(i)))

\* callElem forcing the call while the array is built
callElemForced(fun, i) ==
    LET c == call(fun, indexArg(i))
    IN [elem |-> Thunk(callThunkId(indexArg(i).id), c.res), log |-> c.log]

\* elem := fun.call(args(&readyValue{intToValue(i)})): a thunk, not forced
callElem(fun, i) ==
    [elem |-> Thunk(callThunkId(indexArg(i).id), call(fun, indexArg(i)).res), log |-> <<>>]

\* the loop: elems and the thunks forced, for the indices i..num-1
RECURSIVE makeArrayFrom(_, _, _, _, _)
makeArrayFrom(fun, num, i, elems, lg) ==
    IF i >= num THEN Ret(Ok(makeValueArray(elems)), lg)
    ELSE LET c == callElem(fun, i)
         IN makeArrayFrom(fun, num, i + 1, Append(elems, c.elem), lg \o c.log)

builtinMakeArray(szp, funcp) ==
    LET sz == evaluateNumber(szp)
        fun == evaluateFunction(funcp)
    IN IF ~sz.ok THEN Ret(sz, <<szp.id>>)
       ELSE IF ~fun.ok THEN Ret(fun, <<szp.id, funcp.id>>)
       ELSE makeArrayFrom(fun.v, sz.v.value.n, 0, <<>>, <<szp.id, funcp.id>>)

\* forcing element i (from 0) of the array makeArray(sz, fun) returned:
\* the outcome and the thunks forced
forceElem(fun, arr, i) ==
    [out |-> evaluate(arr.elements[i + 1]), log |-> call(fun, indexArg(i)).log]

(***************************************************************************)
(* flatMap.                                                                *)
(***************************************************************************)
\* appendReturned putting the returned elements in front
appendReturnedInFront(elems, returned) == returned.elements \o elems

\* for _, elem := range returned.elements { elems = append(elems, elem) }
appendReturned(elems, returned) == elems \o returned.elements

RECURSIVE flatMapFrom(_, _, _, _, _)
flatMapFrom(fun, elements, i, elems, lg) ==
    IF i > Len(elements) THEN Ret(Ok(makeValueArray(elems)), lg)
    ELSE LET c == call(fun, elements[i])
             returned == IF c.res.ok THEN getArray(c.res.v) ELSE c.res
             lg2 == lg \o c.log
         IN IF ~returned.ok THEN Ret(returned, lg2)
            ELSE flatMapFrom(fun, elements, i + 1, appendReturned(elems, returned.v), lg2)

builtinFlatMap(funcp, arrp) ==
    LET arr == evaluateArray(arrp)
        fun == evaluateFunction(funcp)
    IN IF ~arr.ok THEN Ret(arr, <<arrp.id>>)
       ELSE IF ~fun.ok THEN Ret(fun, <<arrp.id, funcp.id>>)
       ELSE flatMapFrom(fun.v, arr.v.elements, 1, <<>>, <<arrp.id, funcp.id>>)

(***************************************************************************)
(* The pools the arguments are drawn from.  The i-th argument of a call is *)
(* the thunk i; the elements of an array in argument i are the thunks      *)
(* 10 * i + 1, 10 * i + 2, ...                                             *)
(***************************************************************************)
NumberLits == {Fin(-1), Fin(0), Fin(1), Fin(MaxFloat)}
StringLits == {<<>>, <<97>>, <<97, 98>>, <<98>>}

\* what forcing an element yields, by the expression of the element
elemOut(e, id) ==
    CASE e = "1" -> Ok(makeValueNumber(Fin(1)))
      [] e = "-1" -> Ok(makeValueNumber(Fin(-1)))
      [] e = "true" -> Ok(makeValueBoolean(TRUE))
      [] e = "a" -> Ok(makeValueString(<<97>>))
      [] OTHER -> userError(id)

elemThunks(i, es) == [j \in 1..Len(es) |-> Thunk(10 * i + j, elemOut(es[j], 10 * i + j))]

ArrayLits(i) ==
    {makeValueArray(elemThunks(i, es)) : es \in {<<>>, <<"1">>, <<"boom">>}}

ObjectLits(i) ==
    {makeValueSimpleObject(i, emptyFieldMap, <<>>),
     makeValueSimpleObject(i,
         (<<97>> :> valueSimpleObjectField(ObjectFieldInherit, codeField("var")))
         @@ (<<98>> :> valueSimpleObjectField(ObjectFieldHidden, codeField("lit"))),
         <<>>)}

FunctionLits == {makeValueFunction(<<"x">>, "isPos")}

Numbers == {makeValueNumber(f) : f \in NumberLits \cup {acc}}
Booleans == {makeValueBoolean(b) : b \in BOOLEAN}
Strings == {makeValueString(s) : s \in StringLits}

\* every type, several values of the types that +, < and == tell apart
Values(i) ==
    {makeValueNull} \cup Booleans \cup Numbers \cup Strings
    \cup ArrayLits(i) \cup ObjectLits(i) \cup FunctionLits

\* one value of every type
OneOfEach(i) ==
    {makeValueNull, makeValueBoolean(TRUE), makeValueNumber(Fin(1)),
     makeValueString(<<97>>), makeValueArray(<<>>),
     makeValueSimpleObject(i, emptyFieldMap, <<>>),
     makeValueFunction(<<"x">>, "isPos")}

thunksOf(i, values) == {Thunk(i, Ok(v)) : v \in values} \cup {Thunk(i, userError(i))}

Operands(i) == thunksOf(i, Values(i))
NumberOperands(i) == thunksOf(i, Numbers \cup OneOfEach(i))
BooleanOperands(i) == thunksOf(i, Booleans \cup OneOfEach(i))

(***************************************************************************)
(* The calls of the operator and math builtins.                            *)
(***************************************************************************)
NoAux == [k |-> "none"]

\* a call is made when no call is under way (Idle); Return ends it
Idle == op = "none"

Called(name, a, r, x) ==
    /\ op' = name
    /\ args' = a
    /\ aux' = x
    /\ ret' = r.res
    /\ log' = r.log
    /\ acc' = IF r.res.ok /\ r.res.v.t = "number" THEN r.res.v.value ELSE acc
    /\ UNCHANGED thunks

Init ==
    /\ op = "none"
    /\ args = <<>>
    /\ aux = NoAux
    /\ ret = Ok(makeValueNull)
    /\ log = <<>>
    /\ acc \in {Fin(0)}
    /\ thunks = <<>>

CallPlus ==
    /\ Idle
    /\ \E xp \in Operands(1), yp \in Operands(2) :
        Called("plus", <<xp, yp>>, builtinPlus(xp, yp), NoAux)

CallMinus ==
    /\ Idle
    /\ \E xp \in NumberOperands(1), yp \in NumberOperands(2) :
        Called("minus", <<xp, yp>>, builtinMinus(xp, yp), NoAux)

CallMult ==
    /\ Idle
    /\ \E xp \in NumberOperands(1), yp \in NumberOperands(2) :
        Called("mult", <<xp, yp>>, builtinMult(xp, yp), NoAux)

CallDiv ==
    /\ Idle
    /\ \E xp \in NumberOperands(1), yp \in NumberOperands(2) :
        Called("div", <<xp, yp>>, builtinDiv(xp, yp), NoAux)

CallModulo ==
    /\ Idle
    /\ \E xp \in NumberOperands(1), yp \in NumberOperands(2) :
        Called("modulo", <<xp, yp>>, builtinModulo(xp, yp), NoAux)

CallLess ==
    /\ Idle
    /\ \E xp \in Operands(1), yp \in Operands(2) :
        Called("less", <<xp, yp>>, builtinLess(xp, yp), NoAux)

CallGreater ==
    /\ Idle
    /\ \E xp \in Operands(1), yp \in Operands(2) :
        Called("greater", <<xp, yp>>, builtinGreater(xp, yp), NoAux)

CallGreaterEq ==
    /\ Idle
    /\ \E xp \in Operands(1), yp \in Operands(2) :
        Called("greaterEq", <<xp, yp>>, builtinGreaterEq(xp, yp), NoAux)

CallLessEq ==
    /\ Idle
    /\ \E xp \in Operands(1), yp \in Operands(2) :
        Called("lessEq", <<xp, yp>>, builtinLessEq(xp, yp), NoAux)

CallAnd ==
    /\ Idle
    /\ \E xp \in BooleanOperands(1), yp \in BooleanOperands(2) :
        Called("and", <<xp, yp>>, builtinAnd(xp, yp), NoAux)

CallOr ==
    /\ Idle
    /\ \E xp \in BooleanOperands(1), yp \in BooleanOperands(2) :
        Called("or", <<xp, yp>>, builtinOr(xp, yp), NoAux)

CallPrimitiveEquals ==
    /\ Idle
    /\ \E xp \in Operands(1), yp \in Operands(2) :
        Called("primitiveEquals", <<xp, yp>>, primitiveEquals(xp, yp), NoAux)

MathFuncs == {"sqrt", "log", "exp", "floor"}
BitFuncs == {"shiftL", "shiftR", "bitAnd", "bitOr", "bitXor"}

CallLiftNumeric ==
    /\ Idle
    /\ \E f \in MathFuncs, xp \in NumberOperands(1) :
        Called(f, <<xp>>, liftNumeric(f, xp), NoAux)

\* the conversion int64(v) of the operand p, when p is a number: v itself,
\* or any int64 when int64 cannot represent v
conversions(p) ==
    IF p.out.ok /\ p.out.v.t = "number"
    THEN {c \in IntMin..IntMax : toInt64(p.out.v.value, c) = c}
    ELSE {0}

CallLiftBitwise ==
    /\ Idle
    /\ \E f \in BitFuncs, xp \in NumberOperands(1), yp \in NumberOperands(2) :
        \E implX \in conversions(xp), implY \in conversions(yp) :
            Called(f, <<xp, yp>>, liftBitwise(f, xp, yp, implX, implY),
                   [k |-> "int64", x |-> implX, y |-> implY])

\* the call returns to its caller, which keeps the number in acc
Return ==
    /\ op # "none"
    /\ op' = "none"
    /\ args' = <<>>
    /\ aux' = NoAux
    /\ ret' = Ok(makeValueNull)
    /\ log' = <<>>
    /\ UNCHANGED <<acc, thunks>>

Next ==
    \/ Return
    \/ CallPlus
    \/ CallMinus
    \/ CallMult
    \/ CallDiv
    \/ CallModulo
    \/ CallLess
    \/ CallGreater
    \/ CallGreaterEq
    \/ CallLessEq
    \/ CallAnd
    \/ CallOr
    \/ CallPrimitiveEquals
    \/ CallLiftNumeric
    \/ CallLiftBitwise

Spec == Init /\ [][Next]_vars

(***************************************************************************)
(* The calls of the object builtins.                                       *)
(***************************************************************************)
MaxFields == 2

FieldNames == {<<97>>, <<97, 98>>, <<98>>}
Hides == {ObjectFieldHidden, ObjectFieldInherit, ObjectFieldVisible}

\* the orders in which a Go map with the keys names may be iterated
IterationOrders(names) ==
    {o \in [1..Cardinality(names) -> names] :
        \A i, j \in DOMAIN o : i # j => o[i] # o[j]}

\* the tables name -> hide flag with names in names, at most max of them
FieldTables(names, max) ==
    UNION {[S -> Hides] : S \in {T \in SUBSET names : Cardinality(T) <= max}}

\* the simple object with environment env, the fields of table (every body
\* is the variable of the environment) and the assertions asserts
objectOf(env, table, asserts) ==
    makeValueSimpleObject(
        env, [n \in DOMAIN table |-> valueSimpleObjectField(table[n], codeField("var"))],
        asserts)

SimpleObjects(env, names, max, asserts) ==
    {objectOf(env, table, asserts) : table \in FieldTables(names, max)}

\* simple objects, L + R, (L + R) + S and L + (R + S)
ObjectPool ==
    LET one == SimpleObjects(1, FieldNames, 1, <<>>)
        two == SimpleObjects(2, FieldNames, 1, <<>>)
        a1 == SimpleObjects(1, {<<97>>}, 1, <<>>)
        a2 == SimpleObjects(2, {<<97>>}, 1, <<>>)
        a3 == SimpleObjects(3, {<<97>>}, 1, <<>>)
    IN SimpleObjects(1, FieldNames, MaxFields, <<>>)
       \cup {makeValueExtendedObject(l, r) : l \in one, r \in two}
       \cup {makeValueExtendedObject(makeValueExtendedObject(l, r), q) :
                l \in a1, r \in a2, q \in a3}
       \cup {makeValueExtendedObject(l, makeValueExtendedObject(r, q)) :
                l \in a1, r \in a2, q \in a3}

ObjectOperands(i) == thunksOf(i, ObjectPool \cup {makeValueNull})
FlagOperands(i) == thunksOf(i, Booleans \cup {makeValueNull})
NameOperands(i) ==
    thunksOf(i, {makeValueString(n) : n \in FieldNames \cup {<<99>>}} \cup {makeValueNull})

CallObjectFieldsEx ==
    /\ Idle
    /\ \E objp \in ObjectOperands(1), includeHiddenP \in FlagOperands(2),
          order \in IterationOrders(FieldNames) :
        Called("objectFieldsEx", <<objp, includeHiddenP>>,
               builtinObjectFieldsEx(objp, includeHiddenP, order),
               [k |-> "order", order |-> order])

CallObjectHasEx ==
    /\ Idle
    /\ \E objp \in ObjectOperands(1), fnamep \in NameOperands(2),
          includeHiddenP \in FlagOperands(3) :
        Called("objectHasEx", <<objp, fnamep, includeHiddenP>>,
               builtinObjectHasEx(objp, fnamep, includeHiddenP), NoAux)

MaxMerge == 2

\* the field names of the objects given to $objectFlatMerge
MergeNames == {<<97>>, <<98>>}

\* the array of the objects with the field tables tables: element j is the
\* thunk 10 + j, its environment is j, and every second one has an assertion
mergeArray(tables) ==
    makeValueArray([j \in 1..Len(tables) |->
        Thunk(10 + j, Ok(objectOf(j, tables[j],
                                  IF j % 2 = 1 THEN <<codeField("lit")>> ELSE <<>>)))])

\* arrays with an element that fails, is no object, or is an extended object
OddArrays ==
    {makeValueArray(<<Thunk(11, o)>>) :
        o \in {userError(11), Ok(makeValueNull),
               Ok(makeValueExtendedObject(makeValueSimpleObject(1, emptyFieldMap, <<>>),
                                          makeValueSimpleObject(2, emptyFieldMap, <<>>)))}}

CallObjectFlatMerge ==
    /\ Idle
    /\ \E order \in IterationOrders(MergeNames) :
         \E objarrp \in
               {Thunk(1, Ok(mergeArray(tables))) :
                   tables \in UNION {[1..n -> FieldTables(MergeNames, MaxFields)] :
                                        n \in 0..MaxMerge}}
               \cup thunksOf(1, OddArrays \cup {makeValueNull}) :
            Called("objectFlatMerge", <<objarrp>>,
                   builtinUglyObjectFlatMerge(objarrp, order),
                   [k |-> "order", order |-> order])

NextObj ==
    \/ Return
    \/ CallObjectFieldsEx
    \/ CallObjectHasEx
    \/ CallObjectFlatMerge

SpecObj == Init /\ [][NextObj]_vars

(***************************************************************************)
(* The calls of the array builtins.                                        *)
(***************************************************************************)
MaxArrayLen == 2

ElemExprs == {"1", "-1", "true", "a", "boom"}
FunctionBodies == {"isPos", "true", "id", "boom", "none", "wrap", "pair"}

RECURSIVE seqsUpTo(_, _)
seqsUpTo(S, n) ==
    IF n = 0 THEN {<<>>}
    ELSE LET shorter == seqsUpTo(S, n - 1)
         IN shorter \cup {Append(sq, e) : sq \in {t \in shorter : Len(t) = n - 1}, e \in S}

ArrayPool(i) == {makeValueArray(elemThunks(i, es)) : es \in seqsUpTo(ElemExprs, MaxArrayLen)}
FunctionPool == {makeValueFunction(<<"x">>, b) : b \in FunctionBodies}

CallFilter ==
    /\ Idle
    /\ \E funcp \in thunksOf(1, FunctionPool \cup {makeValueNull}),
          arrp \in thunksOf(2, ArrayPool(2) \cup {makeValueNull}) :
        Called("filter", <<funcp, arrp>>, builtinFilter(funcp, arrp), NoAux)

CallFlatMap ==
    /\ Idle
    /\ \E funcp \in thunksOf(1, FunctionPool \cup {makeValueNull}),
          arrp \in thunksOf(2, ArrayPool(2) \cup {makeValueNull}) :
        Called("flatMap", <<funcp, arrp>>, builtinFlatMap(funcp, arrp), NoAux)

Sizes == {makeValueNumber(Fin(n)) : n \in -1..MaxArrayLen}

CallMakeArray ==
    /\ Idle
    /\ \E szp \in thunksOf(1, Sizes \cup {makeValueNull}),
          funcp \in thunksOf(2, FunctionPool \cup {makeValueNull}) :
        Called("makeArray", <<szp, funcp>>, builtinMakeArray(szp, funcp), NoAux)

\* an element of the array makeArray returned is forced later on
ForceElement ==
    /\ op = "makeArray" /\ ret.ok
    /\ aux = NoAux
    /\ \E i \in 0..(Len(ret.v.elements) - 1) :
         LET f == forceElem(args[2].out.v, ret.v, i)
         IN /\ aux' = [k |-> "forced", i |-> i, out |-> f.out]
            /\ log' = log \o f.log
    /\ UNCHANGED <<op, args, ret, acc, thunks>>

NextArr ==
    \/ Return
    \/ CallFilter
    \/ CallFlatMap
    \/ CallMakeArray
    \/ ForceElement

SpecArr == Init /\ [][NextArr]_vars

(***************************************************************************)
(* The calls of length, toString, char and codepoint.                      *)
(***************************************************************************)
\* strings of valid code points, one of them beyond the basic plane
StringPool == {<<>>, <<97>>, <<97, 98>>, <<128512>>, <<runeError>>, <<34, 92>>}

ParameterLists == {<<>>, <<"x">>, <<"x", "y">>}

ValuePool(i) ==
    {makeValueNull} \cup Booleans
    \cup {makeValueNumber(f) : f \in NumberLits}
    \cup {makeValueString(str) : str \in StringPool}
    \cup ArrayPool(i) \cup ObjectPool
    \cup {makeValueFunction(ps, "id") : ps \in ParameterLists}

CallLength ==
    /\ Idle
    /\ \E xp \in thunksOf(1, ValuePool(1)) :
        Called("length", <<xp>>, builtinLength(xp), NoAux)

CallToString ==
    /\ Idle
    /\ \E xp \in thunksOf(1, ValuePool(1)) :
        Called("toString", <<xp>>, builtinToString(xp), NoAux)

\* numbers around the limits that char tests and string(rune(x)) knows
CharArgs ==
    {makeValueNumber(Fin(n)) :
        n \in {-1, 0, 97, surrogateMin - 1, surrogateMin, surrogateMax, surrogateMax + 1,
               runeError, codepointMax, codepointMax + 1}}
    \cup {makeValueNumber(f) : f \in {NaN, PInf, NInf}}

\* what rune(NaN) is on the platforms: 0 or the least int32
RuneConversions == {0, -2147483647 - 1}

CallChar ==
    /\ Idle
    /\ \E xp \in thunksOf(1, CharArgs \cup {makeValueNull}), impl \in RuneConversions :
        Called("char", <<xp>>, builtinChar(xp, impl), [k |-> "rune", impl |-> impl])

CallCodepoint ==
    /\ Idle
    /\ \E xp \in thunksOf(1, {makeValueString(str) : str \in StringPool}
                               \cup {makeValueNull}) :
        Called("codepoint", <<xp>>, builtinCodepoint(xp), NoAux)

NextVal ==
    \/ Return
    \/ CallLength
    \/ CallToString
    \/ CallChar
    \/ CallCodepoint

SpecVal == Init /\ [][NextVal]_vars

(***************************************************************************)
(* Lazy values with their state.  A thunk is unevaluated, evaluating or    *)
(* computed (with the value or the error forcing gave); its body is a      *)
(* number, a string, an error expression or a reference to a thunk.        *)
(***************************************************************************)
MaxThunks == 2

ThunkIds == 1..MaxThunks
ThunkBodies == {[k |-> "number"], [k |-> "string"], [k |-> "error"]}
               \cup {[k |-> "ref", to |-> j] : j \in ThunkIds}

unevaluated(body) == [body |-> body, state |-> "unevaluated", evals |-> 0,
                      out |-> Ok(makeValueNull)]

\* isComputed finding no thunk computed
isComputedNever(t) == FALSE

\* the thunk holds the outcome of its evaluation
isComputed(t) == t.state = "computed"

\* force(): the table afterwards and the outcome.  A computed thunk gives
\* its outcome; a thunk that is being evaluated is a cycle; otherwise the
\* body is evaluated and the outcome, value or error, is kept
RECURSIVE force(_, _)
force(tbl, id) ==
    IF isComputed(tbl[id]) THEN [tbl |-> tbl, out |-> tbl[id].out]
    ELSE IF tbl[id].state = "evaluating"
         THEN [tbl |-> tbl, out |-> Error("Infinite recursion")]
    ELSE LET entered == [tbl EXCEPT ![id].state = "evaluating",
                                    ![id].evals = tbl[id].evals + 1]
             body == tbl[id].body
             r == CASE body.k = "number" -> [tbl |-> entered, out |-> Ok(makeValueNumber(Fin(1)))]
                    [] body.k = "string" -> [tbl |-> entered, out |-> Ok(makeValueString(<<97>>))]
                    [] body.k = "error" -> [tbl |-> entered, out |-> userError(id)]
                    [] OTHER -> force(entered, body.to)
         IN [tbl |-> [r.tbl EXCEPT ![id].state = "computed", ![id].out = r.out],
             out |-> r.out]

\* the table after the forces of lg, in order
RECURSIVE forceAll(_, _)
forceAll(tbl, lg) ==
    IF lg = <<>> THEN tbl ELSE forceAll(force(tbl, Head(lg)).tbl, Tail(lg))

InitThunks ==
    /\ op = "none"
    /\ args = <<>>
    /\ aux = NoAux
    /\ ret = Ok(makeValueNull)
    /\ log = <<>>
    /\ acc = Fin(0)
    /\ thunks \in {[id \in ThunkIds |-> unevaluated(bodies[id])] :
                     bodies \in [ThunkIds -> ThunkBodies]}

\* a thunk is forced
ForceThunk ==
    /\ Idle
    /\ \E id \in ThunkIds :
         LET r == force(thunks, id)
         IN /\ op' = "force"
            /\ args' = <<Thunk(id, r.out)>>
            /\ aux' = [k |-> "before", thunks |-> thunks]
            /\ ret' = r.out
            /\ log' = <<id>>
            /\ thunks' = r.tbl
    /\ UNCHANGED acc

\* builtinPlus is called with two of the thunks: each force of its log
\* goes through the table
CallPlusThunks ==
    /\ Idle
    /\ \E x \in ThunkIds, y \in ThunkIds :
         LET xp == Thunk(x, force(thunks, x).out)
             yp == Thunk(y, force(force(thunks, x).tbl, y).out)
             r == builtinPlus(xp, yp)
         IN /\ op' = "plusThunks"
            /\ args' = <<xp, yp>>
            /\ aux' = [k |-> "before", thunks |-> thunks]
            /\ ret' = r.res
            /\ log' = r.log
            /\ thunks' = forceAll(thunks, r.log)
    /\ UNCHANGED acc

NextThunks ==
    \/ Return
    \/ ForceThunk
    \/ CallPlusThunks

SpecThunks == InitThunks /\ [][NextThunks]_vars

(***************************************************************************)
(* The static analyzer (src/static_analyzer.go) over the desugared tree    *)
(* (src/ast/ast.go).  A node is a record of its type, its children under   *)
(* the names of the Go struct, and freeVariables.  An identifier set is a  *)
(* set; ToOrderedSlice lists it in the order of the identifiers.  scope is  *)
(* the parameter vars of the Go functions: the identifiers visible here.   *)
(***************************************************************************)
IdentifierOrder == <<"std", "x", "y">>

ToOrderedSlice(set) == SelectSeq(IdentifierOrder, LAMBDA id : id \in set)
identifiersOf(idents) == {idents[i] : i \in DOMAIN idents}

\* NewNodeBaseLoc: no free variables yet
NodeApply(target, positional, named) ==
    [t |-> "AST_APPLY", Target |-> target,
     Arguments |-> [Positional |-> positional, Named |-> named], freeVariables |-> <<>>]
NodeArray(elements) == [t |-> "AST_ARRAY", Elements |-> elements, freeVariables |-> <<>>]
NodeBinary(left, right) ==
    [t |-> "AST_BINARY", Left |-> left, Right |-> right, freeVariables |-> <<>>]
NodeConditional(cond, branchTrue, branchFalse) ==
    [t |-> "AST_CONDITIONAL", Cond |-> cond, BranchTrue |-> branchTrue,
     BranchFalse |-> branchFalse, freeVariables |-> <<>>]
NodeError(expr) == [t |-> "AST_ERROR", Expr |-> expr, freeVariables |-> <<>>]
NodeFunction(required, optional, body) ==
    [t |-> "AST_FUNCTION", Parameters |-> [Required |-> required, Optional |-> optional],
     Body |-> body, freeVariables |-> <<>>]
NodeImport == [t |-> "AST_IMPORT", freeVariables |-> <<>>]
NodeImportStr == [t |-> "AST_IMPORTSTR", freeVariables |-> <<>>]
NodeIndex(target, index) ==
    [t |-> "AST_INDEX", Target |-> target, Index |-> index, freeVariables |-> <<>>]
\* a Slice index that is left out
nilNode == [t |-> "nil"]
NodeSlice(target, beginIndex, endIndex, step) ==
    [t |-> "AST_SLICE", Target |-> target, BeginIndex |-> beginIndex,
     EndIndex |-> endIndex, Step |-> step, freeVariables |-> <<>>]
NodeLocal(binds, body) ==
    [t |-> "AST_LOCAL", Binds |-> binds, Body |-> body, freeVariables |-> <<>>]
NodeLiteralBoolean == [t |-> "AST_LITERAL_BOOLEAN", freeVariables |-> <<>>]
NodeLiteralNull == [t |-> "AST_LITERAL_NULL", freeVariables |-> <<>>]
NodeLiteralNumber == [t |-> "AST_LITERAL_NUMBER", freeVariables |-> <<>>]
NodeLiteralString == [t |-> "AST_LITERAL_STRING", freeVariables |-> <<>>]
NodeDesugaredObject(asserts, fields) ==
    [t |-> "AST_DESUGARED_OBJECT", Asserts |-> asserts, Fields |-> fields,
     freeVariables |-> <<>>]
NodeSelf == [t |-> "AST_SELF", freeVariables |-> <<>>]
NodeSuperIndex(index) == [t |-> "AST_SUPER_INDEX", Index |-> index, freeVariables |-> <<>>]
NodeInSuper(index) == [t |-> "AST_IN_SUPER", Index |-> index, freeVariables |-> <<>>]
NodeUnary(expr) == [t |-> "AST_UNARY", Expr |-> expr, freeVariables |-> <<>>]
NodeVar(id) == [t |-> "AST_VAR", Id |-> id, freeVariables |-> <<>>]

\* the error analyze returns: none, a static error, or the panic that ends it
nil == Ok(makeValueNull)
MakeStaticError(msg, id) ==
    [ok |-> FALSE, kind |-> "static", msg |-> msg, arg |-> id, at |-> 0]

analysisState == [err |-> nil, freeVars |-> {}, visited |-> <<>>]

\* the function's own parameters stay in its free variables
keepParameters(freeVars, parameters) == freeVars

\* the parameters are free inside the body, but not here or outside
removeParameters(freeVars, parameters) ==
    (freeVars \ identifiersOf(parameters.Required))
        \ {parameters.Optional[i].Name : i \in DOMAIN parameters.Optional}

\* the end of analyzeVisit: SetFreeVariables and return s.err; a panic
\* below unwinds through it
returned(a, s) ==
    IF s.err.ok = FALSE /\ s.err.kind = "panic"
    THEN [err |-> s.err, node |-> a]
    ELSE [err |-> s.err, node |-> [a EXCEPT !.freeVariables = ToOrderedSlice(s.freeVars)]]

RECURSIVE analyzeVisit(_, _, _)
\* state.visited keeps the children as the visits leave them
visitNext(a, inObject, scope, state) ==
    IF state.err # nil THEN [state EXCEPT !.visited = Append(@, a)]
    ELSE LET r == analyzeVisit(a, inObject, scope)
         IN [err |-> r.err,
             freeVars |-> state.freeVars \cup identifiersOf(r.node.freeVariables),
             visited |-> Append(state.visited, r.node)]

\* for _, n := range nodes { visitNext(n, inObject, scope, s) }
RECURSIVE visitEach(_, _, _, _)
visitEach(nodes, inObject, scope, state) ==
    IF nodes = <<>> THEN state
    ELSE visitEach(Tail(nodes), inObject, scope, visitNext(Head(nodes), inObject, scope, state))

\* the name of a field in the scope of the object, its body inside it
RECURSIVE visitFields(_, _, _, _)
visitFields(fields, inObject, scope, state) ==
    IF fields = <<>> THEN state
    ELSE visitFields(Tail(fields), inObject, scope,
                     visitNext(Head(fields).Body, TRUE, scope,
                               visitNext(Head(fields).Name, inObject, scope, state)))

analyzeVisit(a, inObject, scope) ==
    LET s == analysisState
    IN CASE a.t = "AST_APPLY" ->
              LET np == Len(a.Arguments.Positional)
                  s1 == visitNext(a.Target, inObject, scope, s)
                  s2 == visitEach(a.Arguments.Positional, inObject, scope, s1)
                  s3 == visitEach([i \in DOMAIN a.Arguments.Named |-> a.Arguments.Named[i].Arg],
                                  inObject, scope, s2)
              IN returned([a EXCEPT !.Target = s3.visited[1],
                                    !.Arguments.Positional = SubSeq(s3.visited, 2, np + 1),
                                    !.Arguments.Named =
                                        [i \in DOMAIN a.Arguments.Named |->
                                            [Name |-> a.Arguments.Named[i].Name,
                                             Arg |-> s3.visited[np + 1 + i]]]], s3)
         [] a.t = "AST_ARRAY" ->
              LET s1 == visitEach(a.Elements, inObject, scope, s)
              IN returned([a EXCEPT !.Elements = s1.visited], s1)
         [] a.t = "AST_BINARY" ->
              LET s1 == visitNext(a.Left, inObject, scope, s)
                  s2 == visitNext(a.Right, inObject, scope, s1)
              IN returned([a EXCEPT !.Left = s2.visited[1], !.Right = s2.visited[2]], s2)
         [] a.t = "AST_CONDITIONAL" ->
              LET s1 == visitNext(a.Cond, inObject, scope, s)
                  s2 == visitNext(a.BranchTrue, inObject, scope, s1)
                  s3 == visitNext(a.BranchFalse, inObject, scope, s2)
              IN returned([a EXCEPT !.Cond = s3.visited[1], !.BranchTrue = s3.visited[2],
                                    !.BranchFalse = s3.visited[3]], s3)
         [] a.t = "AST_ERROR" ->
              LET s1 == visitNext(a.Expr, inObject, scope, s)
              IN returned([a EXCEPT !.Expr = s1.visited[1]], s1)
         [] a.t = "AST_FUNCTION" ->
              LET no == Len(a.Parameters.Optional)
                  newVars == (scope \cup identifiersOf(a.Parameters.Required))
                                 \cup {a.Parameters.Optional[i].Name : i \in 1..no}
                  s1 == visitEach([i \in 1..no |-> a.Parameters.Optional[i].DefaultArg],
                                  inObject, newVars, s)
                  s2 == visitNext(a.Body, inObject, newVars, s1)
                  s3 == [s2 EXCEPT !.freeVars = removeParameters(@, a.Parameters)]
              IN returned([a EXCEPT !.Parameters.Optional =
                                        [i \in 1..no |->
                                            [Name |-> a.Parameters.Optional[i].Name,
                                             DefaultArg |-> s3.visited[i]]],
                                    !.Body = s3.visited[no + 1]], s3)
         [] a.t = "AST_IMPORT" -> returned(a, s)
         [] a.t = "AST_IMPORTSTR" -> returned(a, s)
         [] a.t = "AST_IN_SUPER" ->
              IF ~inObject
              THEN [err |-> MakeStaticError("Can't use super outside of an object.", ""),
                    node |-> a]
              ELSE LET s1 == visitNext(a.Index, inObject, scope, s)
                   IN returned([a EXCEPT !.Index = s1.visited[1]], s1)
         [] a.t = "AST_SUPER_INDEX" ->
              IF ~inObject
              THEN [err |-> MakeStaticError("Can't use super outside of an object.", ""),
                    node |-> a]
              ELSE LET s1 == visitNext(a.Index, inObject, scope, s)
                   IN returned([a EXCEPT !.Index = s1.visited[1]], s1)
         [] a.t = "AST_INDEX" ->
              LET s1 == visitNext(a.Target, inObject, scope, s)
                  s2 == visitNext(a.Index, inObject, scope, s1)
              IN returned([a EXCEPT !.Target = s2.visited[1], !.Index = s2.visited[2]], s2)
         [] a.t = "AST_LOCAL" ->
              LET nb == Len(a.Binds)
                  newVars == scope \cup {a.Binds[i].Variable : i \in 1..nb}
                  \* binds in local can be mutually or even self recursive
                  s1 == visitEach([i \in 1..nb |-> a.Binds[i].Body], inObject, newVars, s)
                  s2 == visitNext(a.Body, inObject, newVars, s1)
                  s3 == [s2 EXCEPT !.freeVars = @ \ {a.Binds[i].Variable : i \in 1..nb}]
              IN returned([a EXCEPT !.Binds = [i \in 1..nb |->
                                                  [Variable |-> a.Binds[i].Variable,
                                                   Body |-> s3.visited[i]]],
                                    !.Body = s3.visited[nb + 1]], s3)
         [] a.t = "AST_LITERAL_BOOLEAN" -> returned(a, s)
         [] a.t = "AST_LITERAL_NULL" -> returned(a, s)
         [] a.t = "AST_LITERAL_NUMBER" -> returned(a, s)
         [] a.t = "AST_LITERAL_STRING" -> returned(a, s)
         [] a.t = "AST_DESUGARED_OBJECT" ->
              LET nf == Len(a.Fields)
                  s1 == visitFields(a.Fields, inObject, scope, s)
                  s2 == visitEach(a.Asserts, TRUE, scope, s1)
              IN returned([a EXCEPT !.Fields = [i \in 1..nf |->
                                                   [Name |-> s2.visited[2 * i - 1],
                                                    Body |-> s2.visited[2 * i]]],
                                    !.Asserts = SubSeq(s2.visited, 2 * nf + 1,
                                                       Len(s2.visited))], s2)
         [] a.t = "AST_SELF" ->
              IF ~inObject
              THEN [err |-> MakeStaticError("Can't use self outside of an object.", ""),
                    node |-> a]
              ELSE returned(a, s)
         [] a.t = "AST_UNARY" ->
              LET s1 == visitNext(a.Expr, inObject, scope, s)
              IN returned([a EXCEPT !.Expr = s1.visited[1]], s1)
         [] a.t = "AST_VAR" ->
              IF a.Id \notin scope
              THEN [err |-> MakeStaticError("Unknown variable: ", a.Id), node |-> a]
              ELSE returned(a, [s EXCEPT !.freeVars = @ \cup {a.Id}])
         [] OTHER -> [err |-> goPanic("Unexpected node"), node |-> a]

analyze(node) == analyzeVisit(node, FALSE, {"std"})

(***************************************************************************)
(* The trees analyze is called with: a leaf under at most MaxDepth nodes,  *)
(* each of which holds the tree below it as one of its children.           *)
(***************************************************************************)
MaxDepth == 2

Leaves ==
    {NodeVar("std"), NodeVar("x"), NodeVar("y"), NodeSelf, NodeImport, NodeImportStr,
     NodeLiteralBoolean, NodeLiteralNull, NodeLiteralNumber, NodeLiteralString}

Contexts ==
    {"apply target", "apply positional", "apply named", "array", "binary left",
     "binary right", "conditional", "error", "function body", "function default",
     "in super", "super index", "index", "slice", "local bind", "local body",
     "object name", "object body", "object assert", "unary"}

\* the node of context c around the tree e
around(c, e) ==
    CASE c = "apply target" -> NodeApply(e, <<NodeVar("x")>>, <<>>)
      [] c = "apply positional" -> NodeApply(NodeVar("std"), <<e>>, <<>>)
      [] c = "apply named" -> NodeApply(NodeVar("std"), <<>>, <<[Name |-> "x", Arg |-> e]>>)
      [] c = "array" -> NodeArray(<<e, NodeLiteralNull>>)
      [] c = "binary left" -> NodeBinary(e, NodeVar("x"))
      [] c = "binary right" -> NodeBinary(NodeSelf, e)
      [] c = "conditional" -> NodeConditional(NodeLiteralBoolean, e, NodeVar("y"))
      [] c = "error" -> NodeError(e)
      [] c = "function body" ->
             NodeFunction(<<"x">>, <<[Name |-> "y", DefaultArg |-> NodeVar("x")]>>, e)
      [] c = "function default" ->
             NodeFunction(<<>>, <<[Name |-> "x", DefaultArg |-> e]>>, NodeVar("x"))
      [] c = "in super" -> NodeInSuper(e)
      [] c = "super index" -> NodeSuperIndex(e)
      [] c = "index" -> NodeIndex(e, NodeLiteralString)
      [] c = "slice" -> NodeSlice(e, NodeLiteralNumber, nilNode, nilNode)
      [] c = "local bind" -> NodeLocal(<<[Variable |-> "x", Body |-> e]>>, NodeVar("x"))
      [] c = "local body" ->
             NodeLocal(<<[Variable |-> "x", Body |-> NodeVar("y")],
                         [Variable |-> "y", Body |-> NodeLiteralNumber]>>, e)
      [] c = "object name" ->
             NodeDesugaredObject(<<>>, <<[Name |-> e, Body |-> NodeSelf]>>)
      [] c = "object body" ->
             NodeDesugaredObject(<<>>, <<[Name |-> NodeLiteralString, Body |-> e]>>)
      [] c = "object assert" -> NodeDesugaredObject(<<e>>, <<>>)
      [] OTHER -> NodeUnary(e)

\* the leaf under the contexts cs[i..], the first of them outermost
RECURSIVE planted(_, _, _)
planted(cs, i, leaf) ==
    IF i > Len(cs) THEN leaf ELSE around(cs[i], planted(cs, i + 1, leaf))

CallAnalyze ==
    /\ Idle
    /\ \E leaf \in Leaves, cs \in UNION {[1..d -> Contexts] : d \in 0..MaxDepth} :
         LET root == planted(cs, 1, leaf)
             r == analyze(root)
         IN /\ op' = "analyze"
            /\ args' = <<root>>
            /\ aux' = r.node
            /\ ret' = r.err
            /\ log' = <<>>
    /\ UNCHANGED <<acc, thunks>>

NextAnalyze ==
    \/ Return
    \/ CallAnalyze

SpecAnalyze == Init /\ [][NextAnalyze]_vars

(***************************************************************************)
(* The same call, made again.  The arguments are the thunks of the first   *)
(* run; the order in which the Go maps are iterated is chosen anew.  aux   *)
(* keeps the outcome of the first run and ret holds that of the second.    *)
(***************************************************************************)
RunAgain ==
    /\ op \in {"plus", "objectFieldsEx", "objectHasEx", "objectFlatMerge"}
    /\ aux.k # "again"
    /\ \E order \in IterationOrders(FieldNames) \cup IterationOrders(MergeNames) :
         LET r == CASE op = "plus" -> builtinPlus(args[1], args[2])
                    [] op = "objectFieldsEx" ->
                           builtinObjectFieldsEx(args[1], args[2], order)
                    [] op = "objectHasEx" ->
                           builtinObjectHasEx(args[1], args[2], args[3])
                    [] OTHER -> builtinUglyObjectFlatMerge(args[1], order)
         IN /\ (op = "objectFlatMerge") = (order \in IterationOrders(MergeNames))
            /\ aux' = [k |-> "again", first |-> ret, firstLog |-> log]
            /\ ret' = r.res
            /\ log' = r.log
    /\ UNCHANGED <<op, args, acc, thunks>>

NextRuns ==
    \/ Return
    \/ CallPlus
    \/ CallObjectFieldsEx
    \/ CallObjectHasEx
    \/ CallObjectFlatMerge
    \/ RunAgain

SpecRuns == Init /\ [][NextRuns]_vars

(***************************************************************************)
(* EvalCall.  A builtin of funcBuiltins is a record of its name, its       *)
(* function and its parameters; callArguments holds the positional         *)
(* arguments (thunks) and the named ones.                                  *)
(***************************************************************************)
UnaryBuiltin(name, function, parameters) ==
    [arity |-> 1, name |-> name, function |-> function, parameters |-> parameters]
BinaryBuiltin(name, function, parameters) ==
    [arity |-> 2, name |-> name, function |-> function, parameters |-> parameters]
TernaryBuiltin(name, function, parameters) ==
    [arity |-> 3, name |-> name, function |-> function, parameters |-> parameters]

funcBuiltins ==
    [n \in {"length", "toString", "codepoint", "primitiveEquals", "modulo", "objectHasEx"} |->
        CASE n = "length" -> UnaryBuiltin("length", "builtinLength", <<"x">>)
          [] n = "toString" -> UnaryBuiltin("toString", "builtinToString", <<"x">>)
          [] n = "codepoint" -> UnaryBuiltin("codepoint", "builtinCodepoint", <<"x">>)
          [] n = "primitiveEquals" ->
                 BinaryBuiltin("primitiveEquals", "primitiveEquals", <<"sz", "func">>)
          [] n = "modulo" -> BinaryBuiltin("modulo", "builtinModulo", <<"x", "y">>)
          [] OTHER -> TernaryBuiltin("objectHasEx", "builtinObjectHasEx",
                                     <<"obj", "fname", "hidden">>)]

\* b.function(e, a[1], ...)
applyFunction(function, a) ==
    CASE function = "builtinLength" -> builtinLength(a[1])
      [] function = "builtinToString" -> builtinToString(a[1])
      [] function = "builtinCodepoint" -> builtinCodepoint(a[1])
      [] function = "primitiveEquals" -> primitiveEquals(a[1], a[2])
      [] function = "builtinModulo" -> builtinModulo(a[1], a[2])
      [] OTHER -> builtinObjectHasEx(a[1], a[2], a[3])

\* args.positional[i] of a slice that is too short: the Go runtime panics
indexOutOfRange == Ret(goPanic("index out of range"), <<>>)

UnaryEvalCall(b, callArgs) ==
    IF Len(callArgs.positional) < 1 THEN indexOutOfRange
    ELSE applyFunction(b.function, <<callArgs.positional[1]>>)

BinaryEvalCall(b, callArgs) ==
    IF Len(callArgs.positional) < 2 THEN indexOutOfRange
    ELSE applyFunction(b.function, <<callArgs.positional[1], callArgs.positional[2]>>)

TernaryEvalCall(b, callArgs) ==
    IF Len(callArgs.positional) < 3 THEN indexOutOfRange
    ELSE applyFunction(b.function, <<callArgs.positional[1], callArgs.positional[2],
                                     callArgs.positional[3]>>)

EvalCall(b, callArgs) ==
    CASE b.arity = 1 -> UnaryEvalCall(b, callArgs)
      [] b.arity = 2 -> BinaryEvalCall(b, callArgs)
      [] OTHER -> TernaryEvalCall(b, callArgs)

MaxArgs == 4

\* what forcing a positional argument yields
ArgumentPool ==
    {Ok(makeValueNumber(Fin(1))), Ok(makeValueString(<<97>>)), Ok(makeValueBoolean(TRUE)),
     Ok(makeValueSimpleObject(1, emptyFieldMap, <<>>)), userError(1)}

\* no named argument, one with the name of a parameter, one with another name
NamedArguments ==
    {<<>>} \cup {<<[Name |-> n, Arg |-> Thunk(9, Ok(makeValueNumber(Fin(1))))]>> :
                    n \in {"x", "bogus"}}

CallEvalCall ==
    /\ Idle
    /\ \E n \in DOMAIN funcBuiltins, named \in NamedArguments, len \in 0..MaxArgs :
         \E outs \in [1..len -> ArgumentPool] :
            LET positional == [i \in 1..len |-> Thunk(i, outs[i])]
            IN Called("EvalCall", positional,
                      EvalCall(funcBuiltins[n], [positional |-> positional, named |-> named]),
                      [k |-> "call", builtin |-> n, named |-> named])

NextCalls ==
    \/ Return
    \/ CallEvalCall

SpecCalls == Init /\ [][NextCalls]_vars

(***************************************************************************)
(* The operator tables.  BinaryOp and UnaryOp list the operators in the    *)
(* order of their constants (src/ast/ast.go); bopBuiltins and uopBuiltins  *)
(* are slices indexed by the operator, nil where the literal sets nothing. *)
(***************************************************************************)
BinaryOp ==
    <<"BopMult", "BopDiv", "BopPercent", "BopPlus", "BopMinus", "BopShiftL", "BopShiftR",
      "BopGreater", "BopGreaterEq", "BopLess", "BopLessEq", "BopIn", "BopManifestEqual",
      "BopManifestUnequal", "BopBitwiseAnd", "BopBitwiseXor", "BopBitwiseOr", "BopAnd",
      "BopOr">>
UnaryOp == <<"UopNot", "UopBitwiseNot", "UopPlus", "UopMinus">>

builtinNegation(xp) ==
    LET x == evaluateBoolean(xp)
    IN IF ~x.ok THEN Ret(x, <<xp.id>>)
       ELSE Ret(Ok(makeValueBoolean(~x.v.value)), <<xp.id>>)

\* ^i of a two's complement integer is -i - 1
builtinBitNeg(xp, impl) ==
    LET x == evaluateNumber(xp)
    IN IF ~x.ok THEN Ret(x, <<xp.id>>)
       ELSE Ret(Ok(makeValueNumber(roundFloat(-toInt64(x.v.value, impl) - 1))), <<xp.id>>)

builtinIdentity(xp) == Ret(evaluate(xp), <<xp.id>>)

builtinUnaryMinus(xp) ==
    LET x == evaluateNumber(xp)
    IN IF ~x.ok THEN Ret(x, <<xp.id>>)
       ELSE Ret(Ok(makeValueNumber(floatNeg(x.v.value))), <<xp.id>>)

\* todoFunc computing the modulo
todoFuncModulo(xp, yp) == builtinModulo(xp, yp)

todoFunc(xp, yp) == Ret(Error("not implemented yet"), <<>>)

\* so that we don't get segfaults
todo == BinaryBuiltin("", "todoFunc", <<"x", "y">>)

nilBuiltin == [arity |-> 0, name |-> "nil", function |-> "nil", parameters |-> <<>>]

desugaredBop ==
    [bop \in {"BopPercent", "BopManifestEqual", "BopManifestUnequal", "BopIn"} |->
        CASE bop = "BopPercent" -> "mod"
          [] bop = "BopManifestEqual" -> "equals"
          [] bop = "BopManifestUnequal" -> "notEquals"
          [] OTHER -> "objectHasAll"]

bopBuiltins ==
    [bop \in {BinaryOp[i] : i \in DOMAIN BinaryOp} |->
        CASE bop = "BopMult" -> BinaryBuiltin("operator*", "builtinMult", <<"x", "y">>)
          [] bop = "BopDiv" -> BinaryBuiltin("operator/", "builtinDiv", <<"x", "y">>)
          [] bop = "BopPercent" -> todo
          [] bop = "BopPlus" -> BinaryBuiltin("operator+", "builtinPlus", <<"x", "y">>)
          [] bop = "BopMinus" -> BinaryBuiltin("operator-", "builtinMinus", <<"x", "y">>)
          [] bop = "BopShiftL" -> BinaryBuiltin("operator<<", "builtinShiftL", <<"x", "y">>)
          [] bop = "BopShiftR" -> BinaryBuiltin("operator>>", "builtinShiftR", <<"x", "y">>)
          [] bop = "BopGreater" -> BinaryBuiltin("operator>", "builtinGreater", <<"x", "y">>)
          [] bop = "BopGreaterEq" ->
                 BinaryBuiltin("operator>=", "builtinGreaterEq", <<"x", "y">>)
          [] bop = "BopLess" -> BinaryBuiltin("operator<,", "builtinLess", <<"x", "y">>)
          [] bop = "BopLessEq" -> BinaryBuiltin("operator<=", "builtinLessEq", <<"x", "y">>)
          [] bop = "BopBitwiseAnd" ->
                 BinaryBuiltin("operator&", "builtinBitwiseAnd", <<"x", "y">>)
          [] bop = "BopBitwiseXor" ->
                 BinaryBuiltin("operator^", "builtinBitwiseXor", <<"x", "y">>)
          [] bop = "BopBitwiseOr" ->
                 BinaryBuiltin("operator|", "builtinBitwiseOr", <<"x", "y">>)
          [] bop = "BopAnd" -> BinaryBuiltin("operator&&", "builtinAnd", <<"x", "y">>)
          [] bop = "BopOr" -> BinaryBuiltin("operator||", "builtinOr", <<"x", "y">>)
          [] OTHER -> nilBuiltin]

uopBuiltins ==
    [uop \in {UnaryOp[i] : i \in DOMAIN UnaryOp} |->
        CASE uop = "UopNot" -> UnaryBuiltin("operator!", "builtinNegation", <<"x">>)
          [] uop = "UopBitwiseNot" -> UnaryBuiltin("operator~", "builtinBitNeg", <<"x">>)
          [] uop = "UopPlus" -> UnaryBuiltin("operator+ (unary)", "builtinIdentity", <<"x">>)
          [] OTHER -> UnaryBuiltin("operator- (unary)", "builtinUnaryMinus", <<"x">>)]

\* b.function(e, xp, yp) of an operator; a method of a nil builtin is a
\* nil pointer dereference
applyBinaryOperator(b, xp, yp, implX, implY) ==
    CASE b.function = "builtinMult" -> builtinMult(xp, yp)
      [] b.function = "builtinDiv" -> builtinDiv(xp, yp)
      [] b.function = "todoFunc" -> todoFunc(xp, yp)
      [] b.function = "builtinPlus" -> builtinPlus(xp, yp)
      [] b.function = "builtinMinus" -> builtinMinus(xp, yp)
      [] b.function = "builtinShiftL" -> liftBitwise("shiftL", xp, yp, implX, implY)
      [] b.function = "builtinShiftR" -> liftBitwise("shiftR", xp, yp, implX, implY)
      [] b.function = "builtinGreater" -> builtinGreater(xp, yp)
      [] b.function = "builtinGreaterEq" -> builtinGreaterEq(xp, yp)
      [] b.function = "builtinLess" -> builtinLess(xp, yp)
      [] b.function = "builtinLessEq" -> builtinLessEq(xp, yp)
      [] b.function = "builtinBitwiseAnd" -> liftBitwise("bitAnd", xp, yp, implX, implY)
      [] b.function = "builtinBitwiseXor" -> liftBitwise("bitXor", xp, yp, implX, implY)
      [] b.function = "builtinBitwiseOr" -> liftBitwise("bitOr", xp, yp, implX, implY)
      [] b.function = "builtinAnd" -> builtinAnd(xp, yp)
      [] b.function = "builtinOr" -> builtinOr(xp, yp)
      [] OTHER -> Ret(goPanic("nil pointer dereference"), <<>>)

applyUnaryOperator(b, xp, impl) ==
    CASE b.function = "builtinNegation" -> builtinNegation(xp)
      [] b.function = "builtinBitNeg" -> builtinBitNeg(xp, impl)
      [] b.function = "builtinIdentity" -> builtinIdentity(xp)
      [] b.function = "builtinUnaryMinus" -> builtinUnaryMinus(xp)
      [] OTHER -> Ret(goPanic("nil pointer dereference"), <<>>)

\* the builtin in the slot of a binary operator is invoked
EvalBinary ==
    /\ Idle
    /\ \E i \in DOMAIN BinaryOp, xp \in NumberOperands(1), yp \in NumberOperands(2) :
        \E implX \in conversions(xp), implY \in conversions(yp) :
            Called("binary", <<xp, yp>>,
                   applyBinaryOperator(bopBuiltins[BinaryOp[i]], xp, yp, implX, implY),
                   [k |-> "operator", operator |-> BinaryOp[i], x |-> implX, y |-> implY])

\* the builtin in the slot of a unary operator is invoked
EvalUnary ==
    /\ Idle
    /\ \E i \in DOMAIN UnaryOp, xp \in NumberOperands(1) :
        \E impl \in conversions(xp) :
            Called("unary", <<xp>>, applyUnaryOperator(uopBuiltins[UnaryOp[i]], xp, impl),
                   [k |-> "operator", operator |-> UnaryOp[i], x |-> impl])

NextOps ==
    \/ Return
    \/ EvalBinary
    \/ EvalUnary

SpecOps == Init /\ [][NextOps]_vars

(***************************************************************************)
(* What the claims speak of, read off the state of a call.                 *)
(***************************************************************************)
BinaryOps ==
    {"plus", "minus", "mult", "div", "modulo", "less", "greater", "greaterEq", "lessEq",
     "and", "or"} \cup BitFuncs
ComparisonOps == {"less", "greater", "greaterEq", "lessEq"}
NumericOps == {"plus", "minus", "mult", "div", "modulo"} \cup BitFuncs \cup MathFuncs

\* both operands of the call were forced successfully
BothForced == Len(args) = 2 /\ args[1].out.ok /\ args[2].out.ok
X == args[1].out.v
Y == args[2].out.v

IsTypeError(r) == ~r.ok /\ r.kind = "type"
Count(sq, e) == Cardinality({i \in 1..Len(sq) : sq[i] = e})

\* toString(v): v itself when a string, else the string of its manifestation
Stringified(v) ==
    IF v.t = "string" THEN Ok(v)
    ELSE LET m == manifestJSON(v).res
         IN IF m.ok THEN Ok(makeValueString(m.v)) ELSE m

(***************************************************************************)
(* C1: builtinPlus, both operands forced: if y is a string the result is   *)
(* toString(x) followed by y (the error of toString(x) if it fails);       *)
(* otherwise if x is a string it is x followed by toString(y); otherwise   *)
(* two numbers give their sum, two arrays the concatenation of their       *)
(* element thunks, two objects the extended object (left x, right y);      *)
(* every other pairing of types is a type error.                           *)
(***************************************************************************)
C1_PlusDispatch ==
    (op = "plus" /\ BothForced) =>
        IF Y.t = "string"
        THEN LET sx == Stringified(X)
             IN IF sx.ok THEN ret = Ok(makeValueString(sx.v.value \o Y.value)) ELSE ret = sx
        ELSE IF X.t = "string"
        THEN LET sy == Stringified(Y)
             IN IF sy.ok THEN ret = Ok(makeValueString(X.value \o sy.v.value)) ELSE ret = sy
        ELSE IF X.t = "number" /\ Y.t = "number"
        THEN /\ ret = Ok(makeValueNumber(floatAdd(X.value, Y.value)))
             /\ (IsFinite(X.value) /\ IsFinite(Y.value) /\ IsFinite(ret.v.value))
                    => ret.v.value.n = X.value.n + Y.value.n
        ELSE IF X.t = "array" /\ Y.t = "array"
        THEN ret = Ok([t |-> "array", elements |-> X.elements \o Y.elements])
        ELSE IF X.t = "object" /\ Y.t = "object"
        THEN ret = Ok([t |-> "object", k |-> "extended", left |-> X, right |-> Y])
        ELSE IsTypeError(ret)

\* 1 + 1 is 2, and 1 + "a" is "1a"
C1_Witness ==
    /\ op = "plus" /\ BothForced
    /\ \/ (X = makeValueNumber(Fin(1)) /\ Y = makeValueNumber(Fin(1))
           /\ ret = Ok(makeValueNumber(Fin(2))))
       \/ (X.t = "number" /\ Y = makeValueString(<<97>>) /\ X.value = Fin(1)
           /\ ret = Ok(makeValueString(<<49, 97>>)))

(***************************************************************************)
(* C2: for finite numeric operands, a number-producing builtin returns a   *)
(* finite number or an error; no NaN and no infinity is returned.          *)
(***************************************************************************)
FiniteOperands ==
    \A i \in 1..Len(args) :
        args[i].out.ok /\ args[i].out.v.t = "number" /\ IsFinite(args[i].out.v.value)

C2_FiniteOrError ==
    (op \in NumericOps /\ FiniteOperands) =>
        \/ ~ret.ok
        \/ (ret.v.t = "number" /\ IsFinite(ret.v.value))

(***************************************************************************)
(* C3: / and modulo need two numbers; with a right operand 0 the result is *)
(* the error 'Division by zero' whatever the number on the left; an        *)
(* operand that is no number gives a type error, not 'Division by zero'.   *)
(***************************************************************************)
C3_DivisionByZero ==
    (op \in {"div", "modulo"} /\ BothForced) =>
        /\ (X.t = "number" /\ Y.t = "number" /\ Y.value = Fin(0))
               => ret = Error("Division by zero.")
        /\ (X.t # "number" \/ Y.t # "number") => IsTypeError(ret)
        /\ ret.ok => (X.t = "number" /\ Y.t = "number" /\ ret.v.t = "number")

\* 0 / 0
C3_Witness ==
    /\ op = "div" /\ BothForced
    /\ X = makeValueNumber(Fin(0)) /\ Y = makeValueNumber(Fin(0))
    /\ ret = Error("Division by zero.")

(***************************************************************************)
(* C4: x && y forces x first; if x is false the result is false and y is   *)
(* not forced; x || y likewise when x is true.  Otherwise y is forced      *)
(* exactly once and the result is the boolean y; a left operand, or a      *)
(* forced right operand, that is no boolean is a type error.               *)
(***************************************************************************)
ShortCircuits(decides) ==
    LET x == args[1].out
        y == args[2].out
    IN /\ log[1] = args[1].id
       /\ Count(log, args[1].id) = 1
       /\ (x.ok /\ x.v.t # "boolean") => (IsTypeError(ret) /\ log = <<args[1].id>>)
       /\ ~x.ok => (ret = x /\ log = <<args[1].id>>)
       /\ (x.ok /\ x.v.t = "boolean" /\ x.v.value = decides)
              => (ret = Ok(makeValueBoolean(decides)) /\ log = <<args[1].id>>)
       /\ (x.ok /\ x.v.t = "boolean" /\ x.v.value # decides)
              => /\ log = <<args[1].id, args[2].id>>
                 /\ (y.ok /\ y.v.t = "boolean") => ret = y
                 /\ (y.ok /\ y.v.t # "boolean") => IsTypeError(ret)
                 /\ ~y.ok => ret = y

C4_ShortCircuit ==
    /\ op = "and" => ShortCircuits(FALSE)
    /\ op = "or" => ShortCircuits(TRUE)

\* false && error "boom" is false
C4_Witness ==
    /\ op = "and"
    /\ args[1].out = Ok(makeValueBoolean(FALSE))
    /\ ~args[2].out.ok
    /\ ret = Ok(makeValueBoolean(FALSE))
    /\ log = <<1>>

(***************************************************************************)
(* C5: every binary operator builtin forces its left operand before its    *)
(* right one: when both operands fail the error is the left one's, and     *)
(* when the left operand fails the right one is not forced.                *)
(***************************************************************************)
C5_LeftBeforeRight ==
    (op \in BinaryOps) =>
        /\ log # <<>> /\ log[1] = args[1].id
        /\ ~args[1].out.ok => (ret = args[1].out /\ Count(log, args[2].id) = 0)

(***************************************************************************)
(* C6: <, <=, >, >= succeed exactly when both operands are numbers or both *)
(* are strings, and then agree with one total order: x > y is y < x,       *)
(* x >= y is not x < y, x <= y is not y < x, and exactly one of x < y,     *)
(* x > y, x = y holds; every other pairing of types is an error.           *)
(***************************************************************************)
Comparable == (X.t = "number" /\ Y.t = "number") \/ (X.t = "string" /\ Y.t = "string")

\* what the four operators return for the operands of this call
Lt == builtinLess(args[1], args[2]).res
Gt == builtinGreater(args[1], args[2]).res
Ge == builtinGreaterEq(args[1], args[2]).res
Le == builtinLessEq(args[1], args[2]).res
\* x < y with the operands exchanged
LtSwapped == builtinLess(Thunk(1, args[2].out), Thunk(2, args[1].out)).res

ExactlyOne(a, b, c) == (a /\ ~b /\ ~c) \/ (~a /\ b /\ ~c) \/ (~a /\ ~b /\ c)

C6_TotalOrder ==
    (op \in ComparisonOps /\ BothForced) =>
        /\ ret.ok <=> Comparable
        /\ ret.ok => ret.v.t = "boolean"
        /\ Comparable =>
              /\ ret = (CASE op = "less" -> Lt [] op = "greater" -> Gt
                          [] op = "greaterEq" -> Ge [] OTHER -> Le)
              /\ Gt.v.value = LtSwapped.v.value
              /\ Ge.v.value = ~Lt.v.value
              /\ Le.v.value = ~LtSwapped.v.value
              /\ ExactlyOne(Lt.v.value, Gt.v.value, X = Y)
              /\ X.t = "number" /\ IsFinite(X.value) /\ IsFinite(Y.value)
                    => (Lt.v.value <=> X.value.n < Y.value.n)
              /\ X.t = "string" => (Lt.v.value <=> seqLess(X.value, Y.value))

(***************************************************************************)
(* C7: primitiveEquals on null, booleans, numbers and strings never fails, *)
(* is true iff both operands have the same type and the same value, and is *)
(* symmetric; two functions, two arrays and two objects are errors.        *)
(***************************************************************************)
PrimitiveTypes == {"null", "boolean", "number", "string"}

C7_PrimitiveEquals ==
    (op = "primitiveEquals" /\ BothForced) =>
        /\ (X.t \in PrimitiveTypes /\ Y.t \in PrimitiveTypes)
               => /\ ret = Ok(makeValueBoolean(X = Y))
                  /\ ret = primitiveEquals(Thunk(1, args[2].out), Thunk(2, args[1].out)).res
        /\ (X.t = "function" /\ Y.t = "function")
               => ret = Error("Cannot test equality of functions")
        /\ (X.t = Y.t /\ X.t \in {"array", "object"}) => (~ret.ok /\ ret.kind = "runtime")

(***************************************************************************)
(* C8: objectFieldsEx(o, h) is the names of fields(o, h) as a strictly     *)
(* increasing array of strings, and objectHasEx(o, name, h) is true        *)
(* exactly when name is an element of objectFieldsEx(o, h), for simple     *)
(* objects and for objects built by inheritance alike.                     *)
(***************************************************************************)
IsForced(p, t) == p.out.ok /\ p.out.v.t = t

\* the strings of an array of forced string thunks
namesOf(arr) == [i \in 1..Len(arr.elements) |-> arr.elements[i].out.v.value]
Range(sq) == {sq[i] : i \in 1..Len(sq)}

\* the names objectFieldsEx(o, h) lists
Listed(o, h) ==
    Range(namesOf(builtinObjectFieldsEx(
                      readyValue(o), readyValue(makeValueBoolean(h)),
                      CHOOSE order \in IterationOrders(FieldNames) : TRUE).res.v))

C8_FieldsAndHas ==
    /\ (op = "objectFieldsEx" /\ IsForced(args[1], "object") /\ IsForced(args[2], "boolean"))
          => /\ ret.ok /\ ret.v.t = "array"
             /\ \A i \in 1..Len(ret.v.elements) :
                   ret.v.elements[i].out.ok /\ ret.v.elements[i].out.v.t = "string"
             /\ \A i \in 1..(Len(ret.v.elements) - 1) :
                   seqLess(namesOf(ret.v)[i], namesOf(ret.v)[i + 1])
             /\ Range(namesOf(ret.v)) = objectFields(X, withHiddenFromBool(Y.value))
             /\ \A n \in Range(namesOf(ret.v)) :
                   \E f \in {findField(X, n)} :
                      f.found /\ (Y.value \/ f.hide # ObjectFieldHidden)
    /\ (op = "objectHasEx" /\ IsForced(args[1], "object") /\ IsForced(args[2], "string")
           /\ IsForced(args[3], "boolean"))
          => ret = Ok(makeValueBoolean(Y.value \in Listed(X, args[3].out.v.value)))

(***************************************************************************)
(* C9: $objectFlatMerge of an array of simple objects: an empty array      *)
(* gives the empty object; if a field name occurs in two of the objects    *)
(* the call fails with 'duplicate field name: <n>' for such a name n;      *)
(* otherwise the result is a simple object with exactly the fields of the  *)
(* inputs, each with the hide flag of its source and evaluated in the      *)
(* upValues of its source, and with no assertions.                         *)
(***************************************************************************)
\* the argument is an array whose elements force to simple objects
SimpleObjectArray ==
    /\ IsForced(args[1], "array")
    /\ \A i \in 1..Len(X.elements) :
          IsForced(X.elements[i], "object") /\ X.elements[i].out.v.k = "simple"

Input(i) == X.elements[i].out.v
\* the names that occur in more than one input
Duplicated ==
    {n \in FieldNames : \E i, j \in 1..Len(X.elements) :
        i # j /\ n \in DOMAIN Input(i).fields /\ n \in DOMAIN Input(j).fields}

C9_FlatMerge ==
    (op = "objectFlatMerge" /\ SimpleObjectArray) =>
        IF Duplicated # {}
        THEN ~ret.ok /\ ret.msg = "duplicate field name: " /\ ret.arg \in Duplicated
        ELSE /\ ret.ok /\ ret.v.t = "object" /\ ret.v.k = "simple"
             /\ ret.v.asserts = <<>>
             /\ DOMAIN ret.v.fields =
                   UNION {DOMAIN Input(i).fields : i \in 1..Len(X.elements)}
             /\ X.elements = <<>> => ret.v.fields = emptyFieldMap
             /\ \A i \in 1..Len(X.elements) : \A n \in DOMAIN Input(i).fields :
                   /\ ret.v.fields[n].hide = Input(i).fields[n].hide
                   /\ ret.v.fields[n].field.k = "bindings"
                   /\ ret.v.fields[n].field.inner = Input(i).fields[n].field
                   /\ ret.v.fields[n].field.bindings = Input(i).upValues
                   /\ bindField(ret.v.fields[n].field, ret.v.upValues)
                         = bindField(Input(i).fields[n].field, Input(i).upValues)

\* {a:: x, assert ...} and {b: y} merge into an object with a and b
C9_Witness ==
    /\ op = "objectFlatMerge" /\ SimpleObjectArray
    /\ Len(X.elements) = 2
    /\ Input(1).asserts # <<>>
    /\ DOMAIN Input(1).fields = {<<97>>} /\ DOMAIN Input(2).fields = {<<98>>}
    /\ Input(1).fields[<<97>>].hide = ObjectFieldHidden
    /\ Input(2).fields[<<98>>].hide = ObjectFieldInherit
    /\ ret.ok /\ DOMAIN ret.v.fields = {<<97>>, <<98>>}
    /\ bindField(ret.v.fields[<<98>>].field, ret.v.upValues) = Ok(makeValueNumber(Fin(2)))

(***************************************************************************)
(* C10: filter(f, arr) forces arr, then applies f to the elements in index *)
(* order; the result is the subsequence of arr's own element thunks for    *)
(* which f(elem) forces to true; at the first element for which f(elem)    *)
(* fails or is no boolean, filter returns that error and applies f to no   *)
(* later element.                                                          *)
(***************************************************************************)
\* f(elem), forced
Applied(f, elem) == call(f, elem).res
Passes(f, elem) == Applied(f, elem) = Ok(makeValueBoolean(TRUE))
Rejects(f, elem) == Applied(f, elem) = Ok(makeValueBoolean(FALSE))

\* the applications of f in the order they were forced
Applications(es) ==
    SelectSeq(log, LAMBDA id : id \in {callThunkId(es[i].id) : i \in 1..Len(es)})

C10_Filter ==
    (op = "filter" /\ IsForced(args[1], "function") /\ IsForced(args[2], "array")) =>
        LET f == X
            es == Y.elements
            bad == {i \in 1..Len(es) : ~Passes(f, es[i]) /\ ~Rejects(f, es[i])}
        IN /\ log[1] = args[2].id
           /\ IF bad = {}
              THEN /\ ret.ok /\ ret.v.t = "array"
                   /\ ret.v.elements = SelectSeq(es, LAMBDA e : Passes(f, e))
                   /\ Len(ret.v.elements) <= Len(es)
                   /\ Applications(es) = [i \in 1..Len(es) |-> callThunkId(es[i].id)]
              ELSE LET k == CHOOSE i \in bad : \A j \in bad : i <= j
                   IN /\ ~ret.ok
                      /\ Applied(f, es[k]).ok => IsTypeError(ret)
                      /\ ~Applied(f, es[k]).ok => ret = Applied(f, es[k])
                      /\ Applications(es) = [i \in 1..k |-> callThunkId(es[i].id)]

\* filter(function(x) x > 0, [-1, 1]) is the array of the second thunk
C10_Witness ==
    /\ op = "filter" /\ IsForced(args[1], "function") /\ IsForced(args[2], "array")
    /\ X.body = "isPos"
    /\ Len(Y.elements) = 2
    /\ Y.elements[1].out = Ok(makeValueNumber(Fin(-1)))
    /\ ret = Ok(makeValueArray(<<Y.elements[2]>>))

(***************************************************************************)
(* C11: flatMap(f, arr) forces arr and then f(elem) for the elements in    *)
(* index order; each f(elem) must be an array, and the result is the       *)
(* concatenation in order of the element thunks of those arrays, none of   *)
(* them forced; at the first f(elem) that fails or is no array, flatMap    *)
(* returns that error.                                                     *)
(***************************************************************************)
\* the concatenation of the arrays f returns for es[i..]
RECURSIVE Concatenated(_, _, _)
Concatenated(f, es, i) ==
    IF i > Len(es) THEN <<>>
    ELSE Applied(f, es[i]).v.elements \o Concatenated(f, es, i + 1)

RECURSIVE Sum(_, _)
Sum(lens, i) == IF i > Len(lens) THEN 0 ELSE lens[i] + Sum(lens, i + 1)

C11_FlatMap ==
    (op = "flatMap" /\ IsForced(args[1], "function") /\ IsForced(args[2], "array")) =>
        LET f == X
            es == Y.elements
            bad == {i \in 1..Len(es) : ~Applied(f, es[i]).ok \/ Applied(f, es[i]).v.t # "array"}
        IN /\ log[1] = args[2].id
           /\ IF bad = {}
              THEN /\ ret.ok /\ ret.v.t = "array"
                   /\ ret.v.elements = Concatenated(f, es, 1)
                   /\ Len(ret.v.elements)
                         = Sum([i \in 1..Len(es) |-> Len(Applied(f, es[i]).v.elements)], 1)
                   /\ Applications(es) = [i \in 1..Len(es) |-> callThunkId(es[i].id)]
                   /\ \A i \in 1..Len(ret.v.elements) : Count(log, ret.v.elements[i].id) = 0
              ELSE LET k == CHOOSE i \in bad : \A j \in bad : i <= j
                   IN /\ ~ret.ok
                      /\ Applied(f, es[k]).ok => IsTypeError(ret)
                      /\ ~Applied(f, es[k]).ok => ret = Applied(f, es[k])
                      /\ Applications(es) = [i \in 1..k |-> callThunkId(es[i].id)]

\* flatMap(function(x) [x, error "inner"], [1, error "boom"]) is an array of
\* four thunks, the second and the fourth of them the unforced inner errors
C11_Witness ==
    /\ op = "flatMap" /\ IsForced(args[1], "function") /\ IsForced(args[2], "array")
    /\ X.body = "pair"
    /\ Len(Y.elements) = 2
    /\ ~Y.elements[2].out.ok
    /\ ret.ok /\ Len(ret.v.elements) = 4
    /\ ret.v.elements[1] = Y.elements[1] /\ ret.v.elements[3] = Y.elements[2]
    /\ ~ret.v.elements[2].out.ok

(***************************************************************************)
(* C12: makeArray(n, f) forces n and f and nothing else, so it succeeds    *)
(* whatever f does; the array has exactly n elements (none when n < 0),    *)
(* and element i, when forced later, yields f(i): the failure of f(i)      *)
(* appears then and not before.                                            *)
(***************************************************************************)
\* f(i) for the functions of the pool
ValueAt(f, i) ==
    CASE f.body = "isPos" -> Ok(makeValueBoolean(i > 0))
      [] f.body = "true" -> Ok(makeValueBoolean(TRUE))
      [] f.body = "id" -> Ok(makeValueNumber(Fin(i)))
      [] f.body = "none" -> Ok(makeValueArray(<<>>))
      [] f.body \in {"wrap", "pair"} -> Ok(makeValueArray(<<>>))
      [] OTHER -> Error("boom")

\* f(i) and what forcing element i gave are the same outcome: both fail, or
\* both are the same value (arrays are compared by their length)
SameOutcome(f, i, out) ==
    LET v == ValueAt(f, i)
    IN /\ v.ok = out.ok
       /\ (v.ok /\ v.v.t # "array") => out = v
       /\ (v.ok /\ v.v.t = "array")
             => /\ out.v.t = "array"
                /\ Len(out.v.elements)
                      = (CASE f.body = "wrap" -> 1 [] f.body = "pair" -> 2 [] OTHER -> 0)
                /\ f.body \in {"wrap", "pair"}
                      => out.v.elements[1].out = Ok(makeValueNumber(Fin(i)))

C12_MakeArrayLazy ==
    (op = "makeArray" /\ IsForced(args[1], "number") /\ IsForced(args[2], "function")) =>
        /\ ret.ok /\ ret.v.t = "array"
        /\ Len(ret.v.elements) = (IF X.value.n >= 0 THEN X.value.n ELSE 0)
        /\ aux = NoAux => log = <<args[1].id, args[2].id>>
        /\ aux # NoAux =>
              /\ SameOutcome(Y, aux.i, aux.out)
              /\ SubSeq(log, 1, 2) = <<args[1].id, args[2].id>>
              /\ log[3] = callThunkId(indexArg(aux.i).id)

\* makeArray(2, function(x) error "boom") succeeded, and forcing its second
\* element has failed
C12_Witness ==
    /\ op = "makeArray" /\ IsForced(args[1], "number") /\ IsForced(args[2], "function")
    /\ X.value = Fin(2) /\ Y.body = "boom"
    /\ ret.ok /\ Len(ret.v.elements) = 2
    /\ aux # NoAux /\ aux.i = 1 /\ ~aux.out.ok

(***************************************************************************)
(* C13: length(x) is the number of non-hidden fields of an object (the     *)
(* length of objectFieldsEx(x, false)), the number of elements of an       *)
(* array, of code points of a string, of parameters of a function, and a   *)
(* type error for null, booleans and numbers; a result is a non-negative   *)
(* integer.                                                                *)
(***************************************************************************)
ArgForced == Len(args) >= 1 /\ args[1].out.ok

C14_ToString ==
    (op = "toString" /\ ArgForced) =>
        /\ X.t = "string" => ret = Ok(X)
        /\ X.t # "string" =>
              LET m == manifestJSON(X).res
              IN /\ ret.ok <=> m.ok
                 /\ m.ok => ret = Ok(makeValueString(m.v))
                 /\ ~m.ok => ret = m
        /\ X.t = "function" => ret = Error("Couldn't manifest function in JSON output.")
        /\ X = makeValueNull => ret = Ok(makeValueString(<<110, 117, 108, 108>>))
        /\ X = makeValueNumber(Fin(-1)) => ret = Ok(makeValueString(<<45, 49>>))
        /\ ret.ok => /\ ret.v.t = "string"
                     /\ builtinToString(readyValue(ret.v)).res = ret

\* toString([1, "a"]) is the string [1, "a"]
C14_Witness ==
    /\ op = "toString" /\ ArgForced
    /\ X.t = "array" /\ Len(X.elements) = 2
    /\ ret = Ok(makeValueString(<<91, 49, 44, 32, 34, 97, 34, 93>>))

(***************************************************************************)
(* C15: char(n) succeeds exactly when 0 <= n <= 0x10FFFF and is then the   *)
(* string of the one code point n; codepoint(s) succeeds exactly when s    *)
(* has one code point and is then its number; so codepoint(char(n)) = n    *)
(* and char(codepoint(s)) = s.                                             *)
(***************************************************************************)
C15_CharCodepoint ==
    /\ (op = "char" /\ IsForced(args[1], "number") /\ IsFinite(X.value)) =>
          /\ ret.ok <=> (0 <= X.value.n /\ X.value.n <= codepointMax)
          /\ ret.ok => /\ ret = Ok(makeValueString(<<X.value.n>>))
                       /\ builtinCodepoint(readyValue(ret.v)).res = Ok(X)
    /\ (op = "codepoint" /\ IsForced(args[1], "string")) =>
          /\ ret.ok <=> Len(X.value) = 1
          /\ ret.ok => /\ ret = Ok(makeValueNumber(Fin(X.value[1])))
                       /\ \A impl \in RuneConversions :
                             builtinChar(readyValue(ret.v), impl).res = Ok(X)

(***************************************************************************)
(* C16: a thunk that has been computed stays as it is: every later force   *)
(* returns the same value or error and evaluates nothing, so a thunk is    *)
(* evaluated at most once, also when builtinPlus forces an operand twice;  *)
(* forcing a thunk whose evaluation comes back to a thunk being evaluated  *)
(* fails with 'Infinite recursion'.                                        *)
(***************************************************************************)
\* following the references from thunk id for n steps stays on references
RECURSIVE OnCycle(_, _)
OnCycle(id, n) ==
    /\ thunks[id].body.k = "ref"
    /\ (n = 0 \/ OnCycle(thunks[id].body.to, n - 1))

C16_ThunkMonotonic ==
    (op \in {"force", "plusThunks"}) =>
        /\ \A id \in ThunkIds :
              /\ aux.thunks[id].state = "computed" => thunks[id] = aux.thunks[id]
              /\ thunks[id].evals <= 1
              /\ thunks[id].state # "evaluating"
              /\ thunks[id].evals = 0 <=> thunks[id].state = "unevaluated"
        /\ \A i \in 1..Len(args) :
              /\ thunks[args[i].id].state = "computed" => thunks[args[i].id].out = args[i].out
              /\ aux.thunks[args[i].id].state = "computed"
                    => args[i].out = aux.thunks[args[i].id].out
        /\ op = "force" =>
              /\ ret = args[1].out
              /\ thunks[args[1].id].state = "computed"
              /\ (ret = Error("Infinite recursion")) <=> OnCycle(args[1].id, MaxThunks)

\* a number thunk + a string thunk: the left operand is forced twice and
\* evaluated once
C16_Witness ==
    /\ op = "plusThunks"
    /\ Count(log, args[1].id) = 2
    /\ thunks[args[1].id].evals = 1
    /\ aux.thunks[args[1].id].state = "unevaluated"
    /\ ret = Ok(makeValueString(<<49, 97>>))

(***************************************************************************)
(* The scopes of a tree.  Parts(n) lists the children of n in the order    *)
(* analyze visits them, each with the identifiers n binds in it and        *)
(* whether n puts it inside an object.                                     *)
(***************************************************************************)
unbound(nodes) == [i \in DOMAIN nodes |-> [node |-> nodes[i], binds |-> {}, object |-> FALSE]]
boundBy(ids, nodes) ==
    [i \in DOMAIN nodes |-> [node |-> nodes[i], binds |-> ids, object |-> FALSE]]
inside(nodes) == [i \in DOMAIN nodes |-> [node |-> nodes[i], binds |-> {}, object |-> TRUE]]

RECURSIVE FieldParts(_)
FieldParts(fields) ==
    IF fields = <<>> THEN <<>>
    ELSE unbound(<<Head(fields).Name>>) \o inside(<<Head(fields).Body>>)
             \o FieldParts(Tail(fields))

Parts(n) ==
    CASE n.t = "AST_APPLY" ->
             unbound(<<n.Target>> \o n.Arguments.Positional
                     \o [i \in DOMAIN n.Arguments.Named |-> n.Arguments.Named[i].Arg])
      [] n.t = "AST_ARRAY" -> unbound(n.Elements)
      [] n.t = "AST_BINARY" -> unbound(<<n.Left, n.Right>>)
      [] n.t = "AST_CONDITIONAL" -> unbound(<<n.Cond, n.BranchTrue, n.BranchFalse>>)
      [] n.t \in {"AST_ERROR", "AST_UNARY"} -> unbound(<<n.Expr>>)
      [] n.t = "AST_FUNCTION" ->
             boundBy(Range(n.Parameters.Required)
                         \cup {n.Parameters.Optional[i].Name : i \in DOMAIN n.Parameters.Optional},
                     [i \in DOMAIN n.Parameters.Optional |-> n.Parameters.Optional[i].DefaultArg]
                         \o <<n.Body>>)
      [] n.t \in {"AST_IN_SUPER", "AST_SUPER_INDEX"} -> unbound(<<n.Index>>)
      [] n.t = "AST_INDEX" -> unbound(<<n.Target, n.Index>>)
      [] n.t = "AST_SLICE" ->
             unbound(SelectSeq(<<n.Target, n.BeginIndex, n.EndIndex, n.Step>>,
                               LAMBDA e : e # nilNode))
      [] n.t = "AST_LOCAL" ->
             boundBy({n.Binds[i].Variable : i \in DOMAIN n.Binds},
                     [i \in DOMAIN n.Binds |-> n.Binds[i].Body] \o <<n.Body>>)
      [] n.t = "AST_DESUGARED_OBJECT" -> FieldParts(n.Fields) \o inside(n.Asserts)
      [] OTHER -> <<>>

\* the nodes of the tree n, n first and then its children in order, each
\* with the identifiers visible at it and whether it is inside an object
RECURSIVE Occurrences(_, _, _), OccurrencesIn(_, _, _)
Occurrences(n, visible, inObject) ==
    <<[node |-> n, visible |-> visible, inObject |-> inObject]>>
        \o OccurrencesIn(Parts(n), visible, inObject)
OccurrencesIn(parts, visible, inObject) ==
    IF parts = <<>> THEN <<>>
    ELSE Occurrences(Head(parts).node, visible \cup Head(parts).binds,
                     inObject \/ Head(parts).object)
             \o OccurrencesIn(Tail(parts), visible, inObject)

\* the tree analyze was called with, node by node
Tree == Occurrences(args[1], {"std"}, FALSE)
\* node i is a Var whose identifier is not visible there
UnknownAt(i) == Tree[i].node.t = "AST_VAR" /\ Tree[i].node.Id \notin Tree[i].visible
\* node i is a self or super outside of every object
OutsideAt(i) ==
    /\ Tree[i].node.t \in {"AST_SELF", "AST_SUPER_INDEX", "AST_IN_SUPER"}
    /\ ~Tree[i].inObject
FirstError(i) == \A j \in 1..(i - 1) : ~UnknownAt(j) /\ ~OutsideAt(j)
HasSlice == \E i \in 1..Len(Tree) : Tree[i].node.t = "AST_SLICE"

UnknownVariableIffInvisible ==
    \A id \in Range(IdentifierOrder) :
        (ret = MakeStaticError("Unknown variable: ", id))
            <=> \E i \in 1..Len(Tree) : UnknownAt(i) /\ Tree[i].node.Id = id /\ FirstError(i)

OutsideMessage(t) ==
    IF t = "AST_SELF" THEN "Can't use self outside of an object."
    ELSE "Can't use super outside of an object."

SelfSuperIffOutside ==
    \A t \in {"AST_SELF", "AST_SUPER_INDEX", "AST_IN_SUPER"} :
        (\E i \in 1..Len(Tree) : OutsideAt(i) /\ Tree[i].node.t = t /\ FirstError(i))
            => ret = MakeStaticError(OutsideMessage(t), "")

SelfSuperOnlyOutside ==
    (ret.ok = FALSE /\ ret.kind = "static" /\ ret.msg # "Unknown variable: ")
        => \E i \in 1..Len(Tree) :
               OutsideAt(i) /\ FirstError(i) /\ ret.msg = OutsideMessage(Tree[i].node.t)

\* on the trees without a Slice, analyze reports exactly the first
\* unknown variable or self/super outside of an object
ScopingWithoutSlice ==
    (op = "analyze" /\ ~HasSlice) =>
        /\ UnknownVariableIffInvisible
        /\ SelfSuperIffOutside
        /\ SelfSuperOnlyOutside
        /\ (ret = nil \/ ret.kind = "static")

(***************************************************************************)
(* C17: analyze returns 'Unknown variable: id' exactly when, with no       *)
(* self/super error before it, the tree has a Var whose identifier is not  *)
(* visible there; visible are std, the variables of an enclosing Local (in *)
(* its body and in the bodies of all its bindings) and the parameters of   *)
(* an enclosing Function (in its body and in the default arguments).       *)
(***************************************************************************)
C17_UnknownVariable == (op = "analyze") => UnknownVariableIffInvisible

(***************************************************************************)
(* C18: analyze accepts Self, SuperIndex and InSuper exactly inside the    *)
(* body of a field or an assertion of an enclosing DesugaredObject, at any *)
(* depth; elsewhere, also in a field name of an object that is not inside  *)
(* an object, it returns "Can't use self/super outside of an object."      *)
(***************************************************************************)
C18_SelfSuperInObject == (op = "analyze") => (SelfSuperIffOutside /\ SelfSuperOnlyOutside)

(***************************************************************************)
(* C19: after analyze returned without error, freeVariables of every node  *)
(* n holds exactly the identifiers of the Vars inside n that no Local or   *)
(* Function inside n (n included) binds there, without duplicates, and all *)
(* of them are visible where n occurs (at the root: within {std}).         *)
(***************************************************************************)
\* the identifiers used in n and not bound inside n
FreeIn(n) ==
    LET occ == Occurrences(n, {}, FALSE)
    IN {occ[i].node.Id : i \in {j \in 1..Len(occ) :
                                    /\ occ[j].node.t = "AST_VAR"
                                    /\ occ[j].node.Id \notin occ[j].visible}}

\* the tree as analyze left it, node by node
Analyzed == Occurrences(aux, {"std"}, FALSE)

C19_FreeVariables ==
    (op = "analyze" /\ ret = nil) =>
        /\ Len(Analyzed) = Len(Tree)
        /\ \A i \in 1..Len(Analyzed) :
              LET n == Analyzed[i].node
              IN /\ n.t = Tree[i].node.t
                 /\ Range(n.freeVariables) = FreeIn(n)
                 /\ \A j, k \in 1..Len(n.freeVariables) :
                        n.freeVariables[j] = n.freeVariables[k] => j = k
                 /\ Range(n.freeVariables) \subseteq Analyzed[i].visible

\* function(x, y = x) std(x): std is free in the function, x only in its body
C19_Witness ==
    /\ op = "analyze"
    /\ ret = nil
    /\ aux.t = "AST_FUNCTION"
    /\ aux.Parameters.Required = <<"x">>
    /\ aux.freeVariables = <<"std">>
    /\ aux.Body.t = "AST_APPLY"
    /\ aux.Body.freeVariables = <<"std", "x">>

(***************************************************************************)
(* C20: on a tree of the node kinds of the desugared form (Slice among     *)
(* them) analyze ends with nil or with a static error and never with the   *)
(* 'Unexpected node' panic.                                                *)
(***************************************************************************)
C20_NoPanic == (op = "analyze") => (ret = nil \/ ret.kind = "static")

(***************************************************************************)
(* C21: the same builtin call, run twice on the same inputs, has the same  *)
(* outcome: the same value, or the same error with the same message; the   *)
(* field name $objectFlatMerge reports as duplicate and the order of the   *)
(* names objectFieldsEx returns do not vary between the runs.              *)
(***************************************************************************)
C21_SameOutcome == (aux.k = "again") => (ret = aux.first)

\* objectFieldsEx and objectHasEx by themselves give the same outcome on
\* every run, and so does $objectFlatMerge when it succeeds
SameOutcomeButDuplicate ==
    (aux.k = "again" /\ ~(op = "objectFlatMerge" /\ ~ret.ok /\ ~aux.first.ok))
        => (ret = aux.first)

(***************************************************************************)
(* C22: a call of a builtin with a number of arguments other than its      *)
(* parameter count, or with a named argument that is no parameter of it,   *)
(* is a runtime error; EvalCall reads no positional argument that was not  *)
(* supplied; with the right count the arguments reach the implementation   *)
(* in positional order, unforced.                                          *)
(***************************************************************************)
Callee == funcBuiltins[aux.builtin]
Supplied == Len(args) + Len(aux.named)
UnknownNamed ==
    \E i \in 1..Len(aux.named) : aux.named[i].Name \notin Range(Callee.parameters)
IsRuntimeError == ~ret.ok /\ ret.kind # "panic"
Panicked == ~ret.ok /\ ret.kind = "panic"

C22_ArityValidated ==
    (op = "EvalCall") =>
        /\ (Supplied # Len(Callee.parameters) \/ UnknownNamed) => IsRuntimeError
        /\ ~Panicked
        /\ (Len(args) = Len(Callee.parameters) /\ aux.named = <<>>)
              => Ret(ret, log) = applyFunction(Callee.function, args)

\* what EvalCall does: the first arguments go to the implementation, the
\* others and the named ones are ignored, and a missing one is a panic
EvalCallUnchecked ==
    (op = "EvalCall") =>
        IF Len(args) >= Callee.arity
        THEN Ret(ret, log) = applyFunction(Callee.function, SubSeq(args, 1, Callee.arity))
        ELSE Panicked /\ log = <<>>

(***************************************************************************)
(* C23: every unary operator has a builtin in uopBuiltins; every binary    *)
(* operator has a real builtin in bopBuiltins or is in desugaredBop with   *)
(* the helper that replaces it (% mod, != notEquals, in objectHasAll,      *)
(* == equals), never both; no operator left to the evaluator has a nil     *)
(* slot or the placeholder; the placeholder of % fails when invoked.       *)
(***************************************************************************)
Desugared == aux.operator \in DOMAIN desugaredBop
RealBuiltin(b) == b # nilBuiltin /\ b # todo /\ b.function # "todoFunc"
NilDereference == ret = goPanic("nil pointer dereference")

HelperOf(bop) ==
    CASE bop = "BopPercent" -> "mod"
      [] bop = "BopManifestUnequal" -> "notEquals"
      [] bop = "BopIn" -> "objectHasAll"
      [] bop = "BopManifestEqual" -> "equals"
      [] OTHER -> "none"

C23_DispatchTotal ==
    /\ (op = "unary") =>
          /\ RealBuiltin(uopBuiltins[aux.operator])
          /\ uopBuiltins[aux.operator].arity = 1
          /\ ~NilDereference
    /\ (op = "binary") =>
          /\ Desugared # RealBuiltin(bopBuiltins[aux.operator])
          /\ Desugared <=> HelperOf(aux.operator) # "none"
          /\ Desugared => desugaredBop[aux.operator] = HelperOf(aux.operator)
          /\ ~Desugared =>
                /\ bopBuiltins[aux.operator].arity = 2
                /\ ~NilDereference
                /\ ret # Error("not implemented yet")
          /\ (aux.operator = "BopPercent") =>
                /\ bopBuiltins[aux.operator] = todo
                /\ ~ret.ok
                /\ log = <<>>

\* 1 % 1 through the slot of %: the placeholder fails
C23_Witness ==
    /\ op = "binary"
    /\ aux.operator = "BopPercent"
    /\ args[1].out = Ok(makeValueNumber(Fin(1)))
    /\ args[2].out = Ok(makeValueNumber(Fin(1)))
    /\ ret = Error("not implemented yet")

====
